---- MODULE Spec2Model ----
(***************************************************************************)
(* A model of libsettings: the request tracker (request_state.c), the      *)
(* inbound message handlers (setting_sbp_cb.c), the setting entry          *)
(* (setting_data.c), the token codec (settings_util.c), the int codec      *)
(* (setting_type_int.c) and the synchronous operations (settings.c).       *)
(*                                                                         *)
(* Payloads are sequences of bytes (naturals); the byte 0 is NUL.  A C     *)
(* string is the sequence of its bytes without the terminating NUL.        *)
(* A NULL pointer to a string is the sequence NULL.                        *)
(***************************************************************************)
EXTENDS Integers, Sequences, FiniteSets, TLC

NULL == <<-1>>

(***************************************************************************)
(* Model bounds.                                                           *)
(***************************************************************************)
\* number of caller threads that may run a synchronous operation
NumThreads == 2
\* calls made on the callback multiplexer
MaxCbCalls == 4
\* number of synchronous calls made one after the other
MaxOps == 2
\* longest buffer handed to the token codec
MaxBufLen == 8

Threads == 1..NumThreads

(***************************************************************************)
(* Program constants.                                                      *)
(***************************************************************************)
SETTINGS_BUFLEN == 255
READ_BY_INDEX_OFFSET == 3
SBP_SENDER_ID == 66
SBP_PAYLOAD_SIZE_MAX == 255
REGISTER_TRIES == 5
WATCH_INIT_TRIES == 5

SETTINGS_REG_OK == 0
SETTINGS_REG_OK_PERM == 1
SETTINGS_REG_REGISTERED == 2
SETTINGS_REG_PARSE_FAILED == 3

SETTINGS_WR_OK == 0
SETTINGS_WR_VALUE_REJECTED == 1
SETTINGS_WR_PARSE_FAILED == 3
SETTINGS_WR_READ_ONLY == 4
SETTINGS_WR_TIMEOUT == 7

SETTINGS_TOKENS_INVALID == -1
SETTINGS_TOKENS_EMPTY == 0
SETTINGS_TOKENS_SECTION == 1
SETTINGS_TOKENS_NAME == 2
SETTINGS_TOKENS_VALUE == 3
SETTINGS_TOKENS_TYPE == 4
\* called SETTINGS_TOKENS_EXTRA_NULL by the unit test
SETTINGS_TOKENS_TYPE_CUSTOM == 5

SETTINGS_TYPE_INT == 0
SETTINGS_TYPE_STRING == 2

UPDATE_FILTER_BASIC == 8
UPDATE_FILTER_READONLY == 2
UPDATE_FILTER_WATCHONLY == 4

\* the ceiling of an inbound payload that setting_update_value accepts
MAX_SETTING_WRITE_LEN == SETTINGS_BUFLEN - READ_BY_INDEX_OFFSET

\* SBP message kinds
SBP_MSG_SETTINGS_REGISTER == "REGISTER"
SBP_MSG_SETTINGS_REGISTER_RESP == "REGISTER_RESP"
SBP_MSG_SETTINGS_WRITE == "WRITE"
SBP_MSG_SETTINGS_WRITE_RESP == "WRITE_RESP"
SBP_MSG_SETTINGS_READ_REQ == "READ_REQ"
SBP_MSG_SETTINGS_READ_RESP == "READ_RESP"
SBP_MSG_SETTINGS_READ_BY_INDEX_REQ == "READ_BY_INDEX_REQ"
SBP_MSG_SETTINGS_READ_BY_INDEX_RESP == "READ_BY_INDEX_RESP"
SBP_MSG_SETTINGS_READ_BY_INDEX_DONE == "READ_BY_INDEX_DONE"

(***************************************************************************)
(* Bytes and C strings.                                                    *)
(***************************************************************************)
Min(a, b) == IF a < b THEN a ELSE b

\* the bytes of buf from the 0-based offset i to its end
From(buf, i) == SubSeq(buf, i + 1, Len(buf))

\* is pre a byte-prefix of buf (memcmp(buf, pre, Len(pre)) == 0 within buf)
IsPrefix(pre, buf) ==
    /\ Len(buf) >= Len(pre)
    /\ \A i \in 1..Len(pre) : buf[i] = pre[i]

\* the C string that starts at the 0-based offset i of buf: up to the next NUL
CStr(buf, i) ==
    LET rest == From(buf, i)
        nuls == {k \in 1..Len(rest) : rest[k] = 0}
        n    == IF nuls = {} THEN Len(rest)
                ELSE (CHOOSE k \in nuls : \A j \in nuls : k <= j) - 1
    IN  SubSeq(rest, 1, n)

\* signed two's complement value of v in w bytes
Wrap(v, w) ==
    IF w = 4 THEN v  \* every number of the model fits 32 bits
    ELSE LET m == 2 ^ (8 * w)
             u == v % m
         IN  IF u >= m \div 2 THEN u - m ELSE u

IsDigit(c) == c \in 48..57
IsSpace(c) == c \in {32, 9, 10, 11, 12, 13}

RECURSIVE NatToText(_)
NatToText(n) ==
    IF n < 10 THEN <<48 + n>> ELSE NatToText(n \div 10) \o <<48 + (n % 10)>>

\* printf("%d")
IntToText(v) == IF v < 0 THEN <<45>> \o NatToText(-v) ELSE NatToText(v)

RECURSIVE DecVal(_, _)
DecVal(s, n) ==
    IF n = 0 THEN 0 ELSE 10 * DecVal(s, n - 1) + (s[n] - 48)

\* sscanf(str, "%d"): skip white space, an optional sign, then decimal digits;
\* the conversion succeeds iff there is at least one digit, and stops at the
\* first byte that is no digit.  [ok, v]
ScanInt(str) ==
    LET ws   == CHOOSE n \in 0..Len(str) :
                   /\ \A i \in 1..n : IsSpace(str[i])
                   /\ (n = Len(str) \/ ~IsSpace(str[n + 1]))
        s1   == From(str, ws)
        sgn  == IF Len(s1) > 0 /\ s1[1] \in {43, 45} THEN 1 ELSE 0
        neg  == sgn = 1 /\ s1[1] = 45
        s2   == From(s1, sgn)
        nd   == CHOOSE n \in 0..Len(s2) :
                   /\ \A i \in 1..n : IsDigit(s2[i])
                   /\ (n = Len(s2) \/ ~IsDigit(s2[n + 1]))
    IN  IF nd = 0 THEN [ok |-> FALSE, v |-> 0]
        ELSE [ok |-> TRUE, v |-> IF neg THEN -DecVal(s2, nd) ELSE DecVal(s2, nd)]

(***************************************************************************)
(* The int codec, setting_type_int.c.  A blob of blen bytes is modelled by *)
(* the signed integer it holds.                                            *)
(***************************************************************************)
\* [n, str]: n = -1 for an unsupported width
int_to_string(blob, blen) ==
    IF blen \in {1, 2, 4}
    THEN [n |-> Len(IntToText(blob)), str |-> IntToText(blob)]
    ELSE [n |-> -1, str |-> <<>>]

\* [ok, blob]: the blob after the call
int_from_string(blob, blen, str) ==
    LET p == ScanInt(str)
    IN  IF blen \notin {1, 2, 4} \/ ~p.ok THEN [ok |-> FALSE, blob |-> blob]
        ELSE IF blen = 1 THEN [ok |-> TRUE, blob |-> Wrap(Wrap(p.v, 2), 1)]
        ELSE [ok |-> TRUE, blob |-> Wrap(p.v, blen)]

(***************************************************************************)
(* The token codec, settings_util.c.                                       *)
(***************************************************************************)
\* settings_format with the test l > blen - n in place of l >= blen - n
settings_format_tight(section, name, value, type, blen) ==
    LET toks == <<section, name, value, type>>
        cnt  == IF \E i \in 1..4 : toks[i] = NULL
                THEN (CHOOSE i \in 1..4 :
                         toks[i] = NULL /\ \A j \in 1..(i - 1) : toks[j] # NULL) - 1
                ELSE 4
        Off[i \in 1..5] == IF i = 1 THEN 0 ELSE Off[i - 1] + Len(toks[i - 1]) + 1
        fits == \A i \in 1..cnt : Len(toks[i]) <= blen - Off[i]
        Cat[i \in 0..4] == IF i = 0 THEN <<>> ELSE Cat[i - 1] \o toks[i] \o <<0>>
    IN  IF fits THEN [n |-> Off[cnt + 1], buf |-> Cat[cnt]]
        ELSE [n |-> -1, buf |-> <<>>]

\* settings_format: [n, buf]; tokens after the first NULL one are not written
settings_format(section, name, value, type, blen) ==
    LET toks == <<section, name, value, type>>
        cnt  == IF \E i \in 1..4 : toks[i] = NULL
                THEN (CHOOSE i \in 1..4 :
                         toks[i] = NULL /\ \A j \in 1..(i - 1) : toks[j] # NULL) - 1
                ELSE 4
        \* bytes written before token i
        Off[i \in 1..5] == IF i = 1 THEN 0 ELSE Off[i - 1] + Len(toks[i - 1]) + 1
        fits == \A i \in 1..cnt : Len(toks[i]) < blen - Off[i]
        Cat[i \in 0..4] == IF i = 0 THEN <<>> ELSE Cat[i - 1] \o toks[i] \o <<0>>
    IN  IF fits THEN [n |-> Off[cnt + 1], buf |-> Cat[cnt]]
        ELSE [n |-> -1, buf |-> <<>>]

\* 0-based offsets of the NUL bytes of buf, ascending
NulOffsets(buf) ==
    LET S == {i \in 0..(Len(buf) - 1) : buf[i + 1] = 0}
        Nth[k \in 1..Cardinality(S)] ==
            CHOOSE i \in S : Cardinality({j \in S : j < i}) = k - 1
    IN  Nth

\* settings_parse without the switch on the token number: every NUL counts
settings_parse_count(buf, wantS, wantN, wantV, wantT) ==
    LET blen == Len(buf)
        none == [tokens |-> SETTINGS_TOKENS_INVALID, section |-> NULL,
                 name |-> NULL, value |-> NULL, type |-> NULL]
    IN  IF blen = 0 THEN none
        ELSE IF buf[blen] # 0 THEN none
        ELSE
          LET nul == NulOffsets(buf)
              cnt == Len(nul)
              Slot(k, want) ==
                  IF want /\ k <= cnt /\ nul[k] + 1 < blen
                  THEN CStr(buf, nul[k] + 1) ELSE NULL
          IN  [tokens  |-> cnt,
               section |-> IF wantS THEN CStr(buf, 0) ELSE NULL,
               name    |-> Slot(1, wantN),
               value   |-> Slot(2, wantV),
               type    |-> Slot(3, wantT)]

\* settings_parse: [tokens, section, name, value, type]; the want* flags say
\* which output slots the caller passes non-NULL
settings_parse(buf, wantS, wantN, wantV, wantT) ==
    LET blen == Len(buf)
        none == [tokens |-> SETTINGS_TOKENS_INVALID, section |-> NULL,
                 name |-> NULL, value |-> NULL, type |-> NULL]
    IN  IF blen = 0 THEN none
        ELSE IF buf[blen] # 0 THEN none
        ELSE
          LET nul == NulOffsets(buf)
              cnt == Len(nul)
              \* does the switch for the k-th NUL leave the loop running
              Pass(k) ==
                  LET i == nul[k]
                  IN  CASE k \in {1, 2} -> TRUE
                        [] k = 3 -> (wantT /\ i + 1 < blen) \/ i = blen - 2 \/ i = blen - 1
                        [] k = 4 -> i = blen - 2 \/ i = blen - 1
                        [] k = 5 -> i = blen - 1
                        [] OTHER -> FALSE
              bad  == {k \in 1..cnt : ~Pass(k)}
              \* a slot is written when its NUL is reached; the first NUL that
              \* can end the loop early is the third
              Slot(k, want) ==
                  IF want /\ k <= cnt /\ nul[k] + 1 < blen
                  THEN CStr(buf, nul[k] + 1) ELSE NULL
          IN  [tokens  |-> IF bad = {} THEN cnt ELSE SETTINGS_TOKENS_INVALID,
               section |-> IF wantS THEN CStr(buf, 0) ELSE NULL,
               name    |-> Slot(1, wantN),
               value   |-> Slot(2, wantV),
               type    |-> Slot(3, wantT)]

(***************************************************************************)
(* The type list, setting_type.c.  A node is the record of its codec       *)
(*   [to_string, from_string, format_type, priv]                           *)
(* with the names of the functions, "NULL" for none, and the enum names as *)
(* priv.  A list of types is a sequence, head first.                       *)
(***************************************************************************)
\* the loop of type_data_lookup: p is the position data_list points at, 0
\* for NULL
RECURSIVE type_data_walk(_, _, _, _)
type_data_walk(data_list, p, i, type) ==
    IF i < type /\ p # 0
    THEN type_data_walk(data_list, IF p < Len(data_list) THEN p + 1 ELSE 0,
                        i + 1, type)
    ELSE p

\* type_data_lookup: the position of the node found, 0 for NULL
type_data_lookup(data_list, type) ==
    type_data_walk(data_list, IF data_list = <<>> THEN 0 ELSE 1, 0, type)

\* type_register: [list, rc, type]; alloc says whether malloc succeeds
type_register(data_list, to_string, from_string, format_type, priv, alloc) ==
    IF ~alloc THEN [list |-> data_list, rc |-> -1, type |-> -1]
    ELSE [list |-> Append(data_list,
                          [to_string |-> to_string, from_string |-> from_string,
                           format_type |-> format_type, priv |-> priv]),
          rc   |-> 0,
          type |-> Len(data_list)]

bool_enum_names == <<"False", "True">>

\* the type list settings_create builds: int, float, string and bool, in
\* this order
settings_create_types ==
    type_register(
      type_register(
        type_register(
          type_register(<<>>, "int_to_string", "int_from_string", "NULL",
                        <<>>, TRUE).list,
          "float_to_string", "float_from_string", "NULL", <<>>, TRUE).list,
        "str_to_string", "str_from_string", "NULL", <<>>, TRUE).list,
      "enum_to_string", "enum_from_string", "enum_format_type",
      bool_enum_names, TRUE).list

(***************************************************************************)
(* The setting entry, setting_data.c.  An entry is a record                *)
(*   [section, name, var, var_len, var_copy, type, notify, notify_context, *)
(*    readonly, watchonly]                                                 *)
(* var is the caller's storage, var_copy the shadow copy; notify says      *)
(* whether a notify hook was given.  A list of entries is a sequence, head *)
(* first.                                                                  *)
(***************************************************************************)
setting_data_create(section, name, var, var_len, type, notify, notify_context, readonly, watchonly) ==
    [section |-> section, name |-> name, var |-> var, var_len |-> var_len,
     var_copy |-> 0, type |-> type, notify |-> notify,
     notify_context |-> notify_context, readonly |-> readonly,
     watchonly |-> watchonly]

\* variant: nothing is ever found
setting_data_lookup_none(data_list, section, name) == 0

\* setting_data_lookup: the 1-based position of the first entry with this
\* section and name, 0 for NULL
setting_data_lookup(data_list, section, name) ==
    LET hit == {i \in 1..Len(data_list) :
                   data_list[i].section = section /\ data_list[i].name = name}
    IN  IF hit = {} THEN 0 ELSE CHOOSE i \in hit : \A j \in hit : i <= j

\* setting_data_append: after the last entry of the same section when the
\* section is present, else at the tail
setting_data_append(data_list, setting_data) ==
    IF data_list = <<>> THEN <<setting_data>>
    ELSE
      LET n    == Len(data_list)
          stop == {i \in 1..(n - 1) :
                      /\ data_list[i].section = setting_data.section
                      /\ data_list[i + 1].section # setting_data.section}
          s    == IF stop = {} THEN n ELSE CHOOSE i \in stop : \A j \in stop : i <= j
      IN  SubSeq(data_list, 1, s) \o <<setting_data>> \o SubSeq(data_list, s + 1, n)

\* setting_data_remove(data_list, &setting_data), the entry given by its
\* position pos: [list, found, fault].  The loop looks at s->next only,
\* starting with s = data_list, so the head itself is never compared; after
\* unlinking the last entry the loop steps to s->next, which is NULL, and
\* reads NULL->next: fault.
setting_data_remove(data_list, pos) ==
    IF data_list = <<>> \/ pos \notin 2..Len(data_list)
    THEN [list |-> data_list, found |-> FALSE, fault |-> FALSE]
    ELSE [list  |-> SubSeq(data_list, 1, pos - 1)
                      \o SubSeq(data_list, pos + 1, Len(data_list)),
          found |-> TRUE,
          fault |-> pos = Len(data_list)]

\* the codec bound to the entry: type_data->from_string / to_string
from_string(sd, str) == int_from_string(sd.var, sd.var_len, str)
to_string(sd) == int_to_string(sd.var, sd.var_len)

\* variant: the value stays when the notify hook rejects it
setting_data_update_value_keep(sd, value, nrc) ==
    IF sd.readonly
    THEN [sd |-> sd, res |-> SETTINGS_WR_READ_ONLY, notified |-> FALSE]
    ELSE
      LET saved == [sd EXCEPT !.var_copy = sd.var]
          conv  == from_string(saved, value)
          upd   == [saved EXCEPT !.var = conv.blob]
      IN  IF ~conv.ok
          THEN [sd |-> [saved EXCEPT !.var = saved.var_copy],
                res |-> SETTINGS_WR_PARSE_FAILED, notified |-> FALSE]
          ELSE IF ~sd.notify
          THEN [sd |-> upd, res |-> SETTINGS_WR_OK, notified |-> FALSE]
          ELSE IF sd.watchonly
          THEN [sd |-> upd, res |-> SETTINGS_WR_OK, notified |-> TRUE]
          ELSE [sd |-> upd, res |-> nrc, notified |-> TRUE]

\* variant: a text the codec rejects is reported as written
setting_data_update_value_lenient(sd, value, nrc) ==
    IF sd.readonly
    THEN [sd |-> sd, res |-> SETTINGS_WR_READ_ONLY, notified |-> FALSE]
    ELSE
      LET saved == [sd EXCEPT !.var_copy = sd.var]
          conv  == from_string(saved, value)
          upd   == [saved EXCEPT !.var = conv.blob]
      IN  IF ~conv.ok \/ ~sd.notify
          THEN [sd |-> upd, res |-> SETTINGS_WR_OK, notified |-> FALSE]
          ELSE IF sd.watchonly
          THEN [sd |-> upd, res |-> SETTINGS_WR_OK, notified |-> TRUE]
          ELSE IF nrc # SETTINGS_WR_OK
          THEN [sd |-> [upd EXCEPT !.var = upd.var_copy], res |-> nrc,
                notified |-> TRUE]
          ELSE [sd |-> upd, res |-> nrc, notified |-> TRUE]

\* variant: the readonly flag is not looked at
setting_data_update_value_rw(sd, value, nrc) ==
    LET saved == [sd EXCEPT !.var_copy = sd.var]
        conv  == from_string(saved, value)
        upd   == [saved EXCEPT !.var = conv.blob]
    IN  IF ~conv.ok
        THEN [sd |-> [saved EXCEPT !.var = saved.var_copy],
              res |-> SETTINGS_WR_PARSE_FAILED, notified |-> FALSE]
        ELSE IF ~sd.notify
        THEN [sd |-> upd, res |-> SETTINGS_WR_OK, notified |-> FALSE]
        ELSE IF sd.watchonly
        THEN [sd |-> upd, res |-> SETTINGS_WR_OK, notified |-> TRUE]
        ELSE IF nrc # SETTINGS_WR_OK
        THEN [sd |-> [upd EXCEPT !.var = upd.var_copy], res |-> nrc,
              notified |-> TRUE]
        ELSE [sd |-> upd, res |-> nrc, notified |-> TRUE]

\* setting_data_update_value from the call of from_string on: saved is the
\* entry with its shadow copy taken, conv what from_string returned
store_and_notify(saved, conv, nrc) ==
    IF ~conv.ok
    THEN [sd |-> [saved EXCEPT !.var = saved.var_copy],
          res |-> SETTINGS_WR_PARSE_FAILED, notified |-> FALSE]
    ELSE IF ~saved.notify
    THEN [sd |-> [saved EXCEPT !.var = conv.blob], res |-> SETTINGS_WR_OK,
          notified |-> FALSE]
    ELSE IF saved.watchonly
    THEN [sd |-> [saved EXCEPT !.var = conv.blob], res |-> SETTINGS_WR_OK,
          notified |-> TRUE]
    ELSE IF nrc # SETTINGS_WR_OK
    THEN [sd |-> [saved EXCEPT !.var = saved.var_copy], res |-> nrc,
          notified |-> TRUE]
    ELSE [sd |-> [saved EXCEPT !.var = conv.blob], res |-> nrc,
          notified |-> TRUE]

\* setting_data_update_value: [sd, res, notified]; nrc is what the notify
\* hook returns if it is invoked
setting_data_update_value(sd, value, nrc) ==
    IF sd.readonly
    THEN [sd |-> sd, res |-> SETTINGS_WR_READ_ONLY, notified |-> FALSE]
    ELSE store_and_notify([sd EXCEPT !.var_copy = sd.var],
                          from_string(sd, value), nrc)

\* setting_data_format: [n, buf, hdr]; hdr is *msg_hdr_len
setting_data_format(sd, type, blen) ==
    LET fail == [n |-> -1, buf |-> <<>>, hdr |-> 0]
        h    == settings_format(sd.section, sd.name, NULL, NULL, Min(blen, 255))
        v    == to_string(sd)
    IN  IF h.n <= 0 THEN fail
        ELSE IF v.n < 0 \/ v.n >= blen - h.n THEN [fail EXCEPT !.hdr = h.n]
        \* the int codec has no format_type
        ELSE [n |-> h.n + v.n + 1, buf |-> h.buf \o v.str \o <<0>>, hdr |-> h.n]

(***************************************************************************)
(* The request tracker, request_state.c.  A request is a record            *)
(*   [owner, event, msg_id, compare_data, match, pending, status,          *)
(*    resp_value_valid, resp_section, resp_name, resp_value, resp_type,    *)
(*    read_by_idx_done]                                                    *)
(* owner is the thread whose call the descriptor belongs to; event is NULL *)
(* for a caller that waits on the context, else the caller's wait object.  *)
(* The request list is a sequence, head first.                             *)
(***************************************************************************)
request_state_init(owner, event, msg_id, data, data_len) ==
    [owner |-> owner, event |-> event, msg_id |-> msg_id,
     compare_data |-> SubSeq(data, 1, data_len), match |-> FALSE,
     pending |-> TRUE, status |-> SETTINGS_WR_TIMEOUT,
     resp_value_valid |-> FALSE, resp_section |-> <<>>, resp_name |-> <<>>,
     resp_value |-> <<>>, resp_type |-> <<>>, read_by_idx_done |-> FALSE]

\* variant: the compare data is not looked at, the head is returned
request_state_lookup_any(list, data) == IF list = <<>> THEN 0 ELSE 1

\* request_state_lookup: the position of the first request whose compare
\* data starts the payload, 0 for NULL
request_state_lookup(list, data) ==
    LET hit == {i \in 1..Len(list) : IsPrefix(list[i].compare_data, data)}
    IN  IF hit = {} THEN 0 ELSE CHOOSE i \in hit : \A j \in hit : i <= j

\* variant: the looked-up request, pending or not
request_state_check_any(list, data) == request_state_lookup(list, data)

\* request_state_check: the looked-up request if it is pending, else NULL
request_state_check(list, data) ==
    LET i == request_state_lookup(list, data)
    IN  IF i = 0 THEN 0 ELSE IF ~list[i].pending THEN 0 ELSE i

request_state_match(state) == state.match

\* request_state_signal: [state, rc, signalled]; signalled lists the host
\* signal calls made, each by the wait object it names (NULL: the context)
request_state_signal(state, msg_id) ==
    IF msg_id # state.msg_id
    THEN [state |-> state, rc |-> -1, signalled |-> <<>>]
    ELSE [state |-> [state EXCEPT !.match = TRUE, !.pending = FALSE],
          rc |-> 0, signalled |-> <<state.event>>]

\* variant: the context-wide signal is called whatever the request carries
request_state_signal_api_ctx(state, signal_thd, msg_id) ==
    IF msg_id # state.msg_id
    THEN [state |-> state, rc |-> -1, calls |-> <<>>]
    ELSE [state |-> [state EXCEPT !.match = TRUE, !.pending = FALSE],
          rc |-> 0, calls |-> <<[fn |-> "signal", arg |-> NULL]>>]

\* request_state_signal with the host interface spelled out: signal_thd
\* says whether the host supplies signal_thd, calls lists the host
\* functions called with their argument (NULL: api->ctx).
\* request_state_signal above is this for a host that supplies signal_thd.
request_state_signal_api(state, signal_thd, msg_id) ==
    IF msg_id # state.msg_id
    THEN [state |-> state, rc |-> -1, calls |-> <<>>]
    ELSE [state |-> [state EXCEPT !.match = TRUE, !.pending = FALSE],
          rc |-> 0,
          calls |-> IF signal_thd /\ state.event # NULL
                    THEN <<[fn |-> "signal_thd", arg |-> state.event]>>
                    ELSE <<[fn |-> "signal", arg |-> NULL]>>]

request_state_deinit(state) == [state EXCEPT !.pending = FALSE]

request_state_append(list, state_data) == list \o <<state_data>>

\* request_state_remove: unlinks the descriptor of the given owner
request_state_remove(list, owner) ==
    LET hit == {i \in 1..Len(list) : list[i].owner = owner}
    IN  IF hit = {} THEN list
        ELSE LET i == CHOOSE k \in hit : \A j \in hit : k <= j
             IN  SubSeq(list, 1, i - 1) \o SubSeq(list, i + 1, Len(list))

(***************************************************************************)
(* Value update on an inbound message, setting_sbp_cb.c.  A sent message   *)
(* is a record [msg_id, payload, from]; from is NULL when the host's send  *)
(* (own sender id) is used, else <<sender id>>.                            *)
(***************************************************************************)
update_filter_check(filter, flag) == (filter \div flag) % 2 = 1

\* setting_send_write_response: the messages handed to the host's send
setting_send_write_response(sd, write_result) ==
    LET f == setting_data_format(sd, FALSE, SETTINGS_BUFLEN - 1)
    IN  IF f.n < 0 THEN <<>>
        ELSE <<[msg_id  |-> SBP_MSG_SETTINGS_WRITE_RESP,
                payload |-> <<write_result % 256>> \o f.buf,
                from    |-> NULL]>>

\* setting_update_value once the value is updated: u is what
\* setting_data_update_value returned for entry i
respond_unless_watch(list, i, nrc, u) ==
    [list     |-> [list EXCEPT ![i] = u.sd],
     out      |-> IF ~u.sd.watchonly
                  THEN setting_send_write_response(u.sd, u.res)
                  ELSE <<>>,
     notified |-> IF u.notified
                  THEN <<[context |-> u.sd.notify_context, rc |-> nrc]>>
                  ELSE <<>>]

\* setting_update_value from the lookup on: i is the position
\* setting_data_lookup returned, value the value token
update_entry(list, msg, filter, nrc, value, i) ==
    IF i = 0 THEN [list |-> list, out |-> <<>>, notified |-> <<>>]
    ELSE IF update_filter_check(filter, UPDATE_FILTER_WATCHONLY)
            /\ list[i].watchonly
    THEN [list |-> list, out |-> <<>>, notified |-> <<>>]
    ELSE IF update_filter_check(filter, UPDATE_FILTER_READONLY)
            /\ list[i].readonly
    THEN [list |-> list, out |-> <<>>, notified |-> <<>>]
    ELSE IF update_filter_check(filter, UPDATE_FILTER_BASIC)
            /\ ~list[i].readonly /\ ~list[i].watchonly
    THEN [list |-> list, out |-> <<>>, notified |-> <<>>]
    ELSE IF Len(msg) > MAX_SETTING_WRITE_LEN
    THEN [list |-> list,
          out |-> setting_send_write_response(list[i],
                                              SETTINGS_WR_VALUE_REJECTED),
          notified |-> <<>>]
    ELSE respond_unless_watch(list, i, nrc,
            setting_data_update_value(list[i], value, nrc))

\* setting_update_value from the parse on: p is what settings_parse returned
update_parsed(list, msg, filter, nrc, p) ==
    IF p.tokens < SETTINGS_TOKENS_VALUE
    THEN [list |-> list, out |-> <<>>, notified |-> <<>>]
    ELSE update_entry(list, msg, filter, nrc, p.value,
                      setting_data_lookup(list, p.section, p.name))

\* setting_update_value: [list, out, notified]; nrc is what the notify hook
\* returns if it is invoked
setting_update_value(list, msg, filter, nrc) ==
    update_parsed(list, msg, filter, nrc,
                  settings_parse(msg, TRUE, TRUE, TRUE, TRUE))

(***************************************************************************)
(* Inputs of the model.                                                    *)
(***************************************************************************)
\* the settings the callers name: "a"."b" and "a"."bb"
K1 == [section |-> <<97>>, name |-> <<98>>]
K2 == [section |-> <<97>>, name |-> <<98, 98>>]
Keys == {K1, K2}

\* storage handed to the register calls: its width and initial contents
VarLens == {1}
InitVals == {5}
\* the value settings_write is asked to write
WriteVals == {7}

\* what the host's callbacks return: 0, or a failure
HostRets == {0, -1}
\* what a notify hook returns
NotifyRets == {SETTINGS_WR_OK, -1}

\* the sender id given to settings_create: any id but the daemon's
sender_id == SBP_SENDER_ID + 1

\* value texts of inbound messages: "7", "x", a text of 249 'x' and "7"
\* followed by 248 'x', which sscanf reads as 7
LongText == [i \in 1..(MAX_SETTING_WRITE_LEN - 3) |-> 120]
LongSeven == [i \in 1..(MAX_SETTING_WRITE_LEN - 3) |-> IF i = 1 THEN 55 ELSE 120]
InTexts == {<<55>>, <<120>>, LongText, LongSeven}

\* section\0name\0
Header(k) == k.section \o <<0>> \o k.name \o <<0>>
\* inbound setting payloads: well formed ones, one without a value, one
\* that ends in the name without its NUL and one that ends in the value
\* without its NUL
GoodBodies == {Header(k) \o v \o <<0>> : k \in Keys, v \in InTexts}
Unterminated == Header(K1) \o <<55>>
BadBodies == {Header(K1), K1.section \o <<0>> \o K1.name, Unterminated}
InBodies == GoodBodies \cup BadBodies
OneBody == Header(K1) \o <<55, 0>>

\* inbound messages, [from, msg]: every payload from the daemon with an
\* accepting status, and one payload for each other status and sender
InRegisterResp ==
    {[from |-> SBP_SENDER_ID, msg |-> <<SETTINGS_REG_OK>> \o b] : b \in InBodies}
      \cup {[from |-> SBP_SENDER_ID, msg |-> <<st>> \o OneBody] :
               st \in {SETTINGS_REG_OK_PERM, SETTINGS_REG_REGISTERED,
                       SETTINGS_REG_PARSE_FAILED, SETTINGS_REG_PARSE_FAILED + 1}}
      \cup {[from |-> sender_id, msg |-> <<SETTINGS_REG_OK>> \o OneBody]}
InWrite ==
    {[from |-> SBP_SENDER_ID, msg |-> b] : b \in InBodies}
      \cup {[from |-> sender_id, msg |-> b] :
               b \in {OneBody, Header(K1) \o <<120, 0>>}}
InWriteResp ==
    {[from |-> SBP_SENDER_ID, msg |-> <<SETTINGS_WR_OK>> \o b] : b \in InBodies}
      \cup {[from |-> SBP_SENDER_ID, msg |-> <<SETTINGS_WR_VALUE_REJECTED>> \o b] :
               b \in {Header(k) \o <<55, 0>> : k \in Keys}}
      \cup {[from |-> sender_id, msg |-> <<SETTINGS_WR_OK>> \o OneBody]}
InReadResp ==
    {[from |-> SBP_SENDER_ID, msg |-> b] : b \in InBodies}
      \cup {[from |-> sender_id, msg |-> OneBody]}

\* the return codes a notify hook can give in a state: a code is only
\* chosen where some entry has a hook
NotifyRetsOf(list) ==
    IF \E i \in 1..Len(list) : list[i].notify THEN NotifyRets ELSE {SETTINGS_WR_OK}

\* the notify context a caller registers for a setting
ContextOf(k) == Header(k)

\* thread 1 waits on the context, the others on a wait object of their own
EventOf(t) == IF t = 1 THEN NULL ELSE <<t>>

OpKinds == {"register", "readonly", "watch", "write", "read", "read_by_idx"}

(***************************************************************************)
(* State.                                                                  *)
(***************************************************************************)
VARIABLES
    setting_data_list,  \* ctx->setting_data_list
    req_list,           \* ctx->req_list
    sbp_cb_list,        \* ctx->sbp_cb_list: the message id of each node
    host_cbs,           \* the host's callback table: the message id of
                        \* each callback registered with it
    op,                 \* per thread: the synchronous call it is in
    calls_left,         \* synchronous calls that may still be started
    crashed,            \* the process has been stopped by a fault
    out,                \* messages handed to the host by the last step
    notified,           \* notify hooks run by the last step: [context, rc]
    signalled,          \* host signal calls of the last step
    type_data_list,     \* ctx->type_data_list: the codec of each node
    lock,               \* the context lock: the thread that holds it, 0
                        \* when it is free
    cb                  \* the host thread that delivers inbound messages:
                        \* its position inside a handler

vars == <<setting_data_list, req_list, sbp_cb_list, host_cbs, op, calls_left,
          crashed, out, notified, signalled, type_data_list, lock, cb>>

\* what the steps of the synchronous calls and the handlers that run as a
\* whole leave alone
locking == <<type_data_list, lock, cb>>

IdleOp ==
    [kind |-> "none", pc |-> "idle", key |-> K1, msg_id |-> "none",
     msg |-> <<>>, from |-> NULL, retries |-> 0, tries |-> 0, sends |-> 0,
     waits |-> 0, send_failed |-> FALSE, success |-> FALSE, result |-> 0,
     var |-> 0, resp |-> <<>>]

\* the host thread is in no handler
CbIdle == [pc |-> "idle", msg_id |-> "none", msg |-> <<>>, state |-> 0,
           stale |-> FALSE]

\* settings_create: empty lists and the four standard types
Created ==
    /\ type_data_list = settings_create_types
    /\ lock = 0
    /\ cb = CbIdle
    /\ setting_data_list = <<>>
    /\ req_list = <<>>
    /\ sbp_cb_list = <<>>
    /\ host_cbs = <<>>
    /\ op = [t \in Threads |-> IdleOp]
    /\ crashed = FALSE
    /\ out = <<>>
    /\ notified = <<>>
    /\ signalled = <<>>

\* the request of thread t: its position in req_list, 0 if none
ReqOf(list, t) ==
    LET hit == {i \in 1..Len(list) : list[i].owner = t}
    IN  IF hit = {} THEN 0 ELSE CHOOSE i \in hit : TRUE

\* a callback list holds a node for msg_id
Registered(list, msg_id) == \E i \in 1..Len(list) : list[i] = msg_id

\* a callback list without its first node for msg_id
Unlinked(list, msg_id) ==
    IF ~Registered(list, msg_id) THEN list
    ELSE LET i == CHOOSE k \in 1..Len(list) :
                     list[k] = msg_id /\ \A j \in 1..(k - 1) : list[j] # msg_id
         IN  SubSeq(list, 1, i - 1) \o SubSeq(list, i + 1, Len(list))

\* variant: the list is not searched for msg_id
setting_sbp_cb_register_dup(list, msg_id, hrc) ==
    IF hrc # 0 THEN [list |-> list, rc |-> -1, host |-> FALSE]
    ELSE [list |-> Append(list, msg_id), rc |-> 0, host |-> TRUE]

\* setting_sbp_cb_register: [list, rc, host]; hrc is what the host's
\* register_cb returns if it is called, host says whether it was called
\* and returned 0
setting_sbp_cb_register(list, msg_id, hrc) ==
    IF Registered(list, msg_id) THEN [list |-> list, rc |-> 1, host |-> FALSE]
    ELSE IF hrc # 0 THEN [list |-> list, rc |-> -1, host |-> FALSE]
    ELSE [list |-> Append(list, msg_id), rc |-> 0, host |-> TRUE]

\* setting_sbp_cb_unregister: [list, rc, host]; the node is unlinked before
\* the host's unregister_cb is called and stays unlinked whatever that
\* returns (hrc); host says whether the host dropped its callback
setting_sbp_cb_unregister(list, msg_id, hrc) ==
    IF ~Registered(list, msg_id) THEN [list |-> list, rc |-> 1, host |-> FALSE]
    ELSE [list |-> Unlinked(list, msg_id), rc |-> IF hrc # 0 THEN -1 ELSE 0,
          host |-> hrc = 0]

(***************************************************************************)
(* Inbound message handlers, setting_sbp_cb.c.  The host runs a handler    *)
(* when a message of a kind in its callback table arrives; msg is the      *)
(* whole payload, nrc what a notify hook returns if the handler runs one.  *)
(***************************************************************************)
Deliver(list, reqs, sent, ntf, sig) ==
    /\ setting_data_list' = list
    /\ req_list' = reqs
    /\ out' = sent
    /\ notified' = ntf
    /\ signalled' = sig
    /\ UNCHANGED <<sbp_cb_list, host_cbs, op, calls_left, crashed, locking>>

Dropped == Deliver(setting_data_list, req_list, <<>>, <<>>, <<>>)

\* a handler ends: u is what setting_update_value returned, g what
\* request_state_signal returned for the request at position state
DeliverSignal(u, state, g) ==
    Deliver(u.list, [req_list EXCEPT ![state] = g.state], u.out, u.notified,
            g.signalled)

\* a handler that found no request ends: u is what setting_update_value
\* returned
DeliverUpdate(u) == Deliver(u.list, req_list, u.out, u.notified, <<>>)

\* variant: the status byte is not looked at
setting_register_resp_callback_any(from, msg, nrc) ==
    /\ ~crashed
    /\ Registered(host_cbs, SBP_MSG_SETTINGS_REGISTER_RESP)
    /\ IF from # SBP_SENDER_ID THEN Dropped
       ELSE
         LET state == request_state_check(req_list, From(msg, 1))
         IN  IF state = 0 THEN Dropped
             ELSE DeliverSignal(
                     setting_update_value(setting_data_list, From(msg, 1),
                                          UPDATE_FILTER_READONLY, nrc),
                     state,
                     request_state_signal(req_list[state],
                                          SBP_MSG_SETTINGS_REGISTER))

\* msg = status byte, then the setting
setting_register_resp_callback(from, msg, nrc) ==
    /\ ~crashed
    /\ Registered(host_cbs, SBP_MSG_SETTINGS_REGISTER_RESP)
    /\ IF from # SBP_SENDER_ID THEN Dropped
       ELSE IF msg[1] = SETTINGS_REG_PARSE_FAILED THEN Dropped
       ELSE IF msg[1] \notin {SETTINGS_REG_OK, SETTINGS_REG_OK_PERM,
                              SETTINGS_REG_REGISTERED} THEN Dropped
       ELSE
         LET state == request_state_check(req_list, From(msg, 1))
         IN  IF state = 0 THEN Dropped
             ELSE DeliverSignal(
                     setting_update_value(setting_data_list, From(msg, 1),
                                          UPDATE_FILTER_READONLY, nrc),
                     state,
                     request_state_signal(req_list[state],
                                          SBP_MSG_SETTINGS_REGISTER))

\* msg = the setting
setting_write_callback(from, msg, nrc) ==
    /\ ~crashed
    /\ Registered(host_cbs, SBP_MSG_SETTINGS_WRITE)
    /\ IF from # SBP_SENDER_ID THEN Dropped
       ELSE
         DeliverUpdate(setting_update_value(setting_data_list, msg,
                                            UPDATE_FILTER_WATCHONLY, nrc))

\* strncpy into a response field of SETTINGS_BUFLEN bytes, NUL at its end
Strncpy(str) == SubSeq(str, 1, Min(Len(str), SETTINGS_BUFLEN - 1))

\* setting_read_resp_callback: the value and type tokens p of the reply are
\* stored into request state
read_resp_store(state, p) ==
    [state EXCEPT
       !.resp_value_valid = p.tokens >= SETTINGS_TOKENS_VALUE /\ p.value # NULL,
       !.resp_value = IF p.tokens >= SETTINGS_TOKENS_VALUE /\ p.value # NULL
                      THEN Strncpy(p.value) ELSE <<>>,
       !.resp_type  = IF p.tokens >= SETTINGS_TOKENS_VALUE /\ p.type # NULL
                      THEN Strncpy(p.type) ELSE <<>>]

\* settings_update_watch_only from the lookup on: i is the position
\* setting_data_lookup returned, value the value token
watch_only_entry(list, nrc, value, i) ==
    IF i = 0 THEN [list |-> list, out |-> <<>>, notified |-> <<>>]
    ELSE IF ~list[i].watchonly
    THEN [list |-> list, out |-> <<>>, notified |-> <<>>]
    ELSE [respond_unless_watch(list, i, nrc,
             setting_data_update_value(list[i], value, nrc))
          EXCEPT !.out = <<>>]

\* settings_update_watch_only from the parse on: p is what settings_parse
\* returned
watch_only_parsed(list, nrc, p) ==
    IF p.tokens < SETTINGS_TOKENS_VALUE
    THEN [list |-> list, out |-> <<>>, notified |-> <<>>]
    ELSE watch_only_entry(list, nrc, p.value,
                          setting_data_lookup(list, p.section, p.name))

\* variant: the reply is not applied to the watched setting
settings_update_watch_only_none(list, msg, nrc) ==
    [list |-> list, out |-> <<>>, notified |-> <<>>]

\* settings_update_watch_only: [list, out, notified]; the value of a reply
\* is stored in the watchonly entry it names, and nothing is sent
settings_update_watch_only(list, msg, nrc) ==
    watch_only_parsed(list, nrc, settings_parse(msg, TRUE, TRUE, TRUE, TRUE))

\* msg = the setting; the sender id from is not looked at.  The reply to a
\* pending request updates the watched setting it names, as the READ_RESP
\* handler of settings.c does, and its tokens are kept in the request.
setting_read_resp_callback(from, msg, nrc) ==
    /\ ~crashed
    /\ Registered(host_cbs, SBP_MSG_SETTINGS_READ_RESP)
    /\ LET state == request_state_check(req_list, msg)
       IN  IF state = 0 THEN Dropped
           ELSE DeliverSignal(
                   settings_update_watch_only(setting_data_list, msg, nrc),
                   state,
                   request_state_signal(
                      read_resp_store(req_list[state],
                         settings_parse(msg, TRUE, TRUE, TRUE, TRUE)),
                      SBP_MSG_SETTINGS_READ_REQ))

\* setting_write_resp_callback after the update: u is what the update
\* returned, state the position request_state_check returned
write_resp_deliver(msg, u, state) ==
    IF state = 0 THEN DeliverUpdate(u)
    ELSE DeliverSignal(u, state,
            request_state_signal([req_list[state] EXCEPT !.status = msg[1]],
                                 SBP_MSG_SETTINGS_WRITE))

\* msg = status byte, then the setting; the sender id from is not looked at
setting_write_resp_callback(from, msg, nrc) ==
    /\ ~crashed
    /\ Registered(host_cbs, SBP_MSG_SETTINGS_WRITE_RESP)
    /\ write_resp_deliver(
          msg,
          IF msg[1] = SETTINGS_WR_OK
          THEN setting_update_value(setting_data_list, From(msg, 1),
                                    UPDATE_FILTER_BASIC, nrc)
          ELSE [list |-> setting_data_list, out |-> <<>>, notified |-> <<>>],
          request_state_check(req_list, From(msg, 1)))

\* setting_read_by_index_resp_callback: the tokens p of the reply are stored
\* into request state
read_by_index_resp_store(state, p) ==
    [state EXCEPT
       !.resp_value_valid = p.tokens > 0 /\ p.value # NULL,
       !.resp_section = IF p.tokens > 0 /\ p.section # NULL
                        THEN Strncpy(p.section) ELSE <<>>,
       !.resp_name    = IF p.tokens > 0 /\ p.name # NULL
                        THEN Strncpy(p.name) ELSE <<>>,
       !.resp_value   = IF p.tokens > 0 /\ p.value # NULL
                        THEN Strncpy(p.value) ELSE <<>>,
       !.resp_type    = IF p.tokens > 0 /\ p.type # NULL
                        THEN Strncpy(p.type) ELSE <<>>]

\* msg = index (2 bytes, low byte first), then the setting; the sender id
\* from is not looked at
setting_read_by_index_resp_callback(from, msg) ==
    /\ ~crashed
    /\ Registered(host_cbs, SBP_MSG_SETTINGS_READ_BY_INDEX_RESP)
    /\ LET state == request_state_check(req_list, SubSeq(msg, 1, 2))
       IN  IF state = 0 THEN Dropped
           ELSE DeliverSignal(
                   [list |-> setting_data_list, out |-> <<>>,
                    notified |-> <<>>],
                   state,
                   request_state_signal(
                      read_by_index_resp_store(req_list[state],
                         settings_parse(From(msg, 2), TRUE, TRUE, TRUE, TRUE)),
                      SBP_MSG_SETTINGS_READ_BY_INDEX_REQ))

\* the wait objects signalled for the requests of list, head first
RECURSIVE SignalAll(_)
SignalAll(list) ==
    IF list = <<>> THEN <<>>
    ELSE request_state_signal(Head(list),
                              SBP_MSG_SETTINGS_READ_BY_INDEX_REQ).signalled
           \o SignalAll(Tail(list))

\* no byte of msg is looked at, nor the sender id from: every request of the
\* list gets its done bit and is signalled as a READ_BY_INDEX_REQ
setting_read_by_index_done_callback(from, msg) ==
    /\ ~crashed
    /\ Registered(host_cbs, SBP_MSG_SETTINGS_READ_BY_INDEX_DONE)
    /\ Deliver(setting_data_list,
               [i \in 1..Len(req_list) |->
                   request_state_signal(
                      [req_list[i] EXCEPT !.read_by_idx_done = TRUE],
                      SBP_MSG_SETTINGS_READ_BY_INDEX_REQ).state],
               <<>>, <<>>, SignalAll(req_list))

(***************************************************************************)
(* The synchronous operations, settings.c.  A call runs in steps: its      *)
(* start up to the first send, every send, every return of the host's      *)
(* wait, and its end; inbound handlers run between the steps.              *)
(***************************************************************************)
\* message_header_get: [n, buf]
\* variant: the length returned leaves out the NUL after the name
message_header_get_short(section, name, blen) ==
    IF Len(section) >= blen \/ Len(name) >= blen - Len(section) - 1
    THEN [n |-> -1, buf |-> <<>>]
    ELSE [n |-> Len(section) + Len(name) + 1,
          buf |-> section \o <<0>> \o name \o <<0>>]

message_header_get(section, name, blen) ==
    IF Len(section) >= blen \/ Len(name) >= blen - Len(section) - 1
    THEN [n |-> -1, buf |-> <<>>]
    ELSE [n |-> Len(section) + Len(name) + 2,
          buf |-> section \o <<0>> \o name \o <<0>>]

\* setting_format_setting: [n, buf, hdr]
setting_format_setting(sd, len) ==
    LET h == message_header_get(sd.section, sd.name, len)
        v == to_string(sd)
    IN  IF h.n < 0 THEN [n |-> -1, buf |-> <<>>, hdr |-> 0]
        ELSE IF v.n < 0 \/ v.n >= len - h.n
        THEN [n |-> -1, buf |-> <<>>, hdr |-> h.n]
        ELSE [n |-> h.n + v.n + 1, buf |-> h.buf \o v.str \o <<0>>, hdr |-> h.n]

\* the subscriptions a call makes, in order; hrc is what the host's
\* register_cb returns during the call
RECURSIVE Subscribe(_, _, _, _)
Subscribe(cbs, host, kinds, hrc) ==
    IF kinds = <<>> THEN [cbs |-> cbs, host |-> host]
    ELSE LET r == setting_sbp_cb_register(cbs, Head(kinds), hrc)
         IN  Subscribe(r.list,
                       IF r.host THEN Append(host, Head(kinds)) ELSE host,
                       Tail(kinds), hrc)

\* the subscriptions a call drops, in order; hrc is what the host's
\* unregister_cb returns during the call
RECURSIVE Unsubscribe(_, _, _, _)
Unsubscribe(cbs, host, kinds, hrc) ==
    IF kinds = <<>> THEN [cbs |-> cbs, host |-> host]
    ELSE LET u == setting_sbp_cb_unregister(cbs, Head(kinds), hrc)
         IN  Unsubscribe(u.list,
                         IF u.host THEN Unlinked(host, Head(kinds)) ELSE host,
                         Tail(kinds), hrc)

\* the call of thread t returns result without having sent anything
Return(t, kind, key, result) ==
    /\ out' = <<>>
    /\ op' = [op EXCEPT ![t] = [IdleOp EXCEPT !.kind = kind, !.pc = "done",
                                             !.key = key, !.result = result]]

\* setting_perform_request_reply_from up to the first wait: the request is
\* set up and linked, the payload is sent; src is what send_from returns
setting_perform_request_reply_from(t, kind, key, message_type, message, header_length, retries, from, src) ==
    /\ req_list' = request_state_append(req_list,
                      request_state_init(t, EventOf(t), message_type, message,
                                         header_length))
    /\ out' = <<[msg_id |-> message_type, payload |-> message, from |-> from]>>
    /\ op' = [op EXCEPT ![t] = [IdleOp EXCEPT
                 !.kind = kind, !.pc = "wait", !.key = key,
                 !.msg_id = message_type, !.msg = message, !.from = from,
                 !.retries = retries, !.sends = 1, !.send_failed = (src # 0)]]

LoopAgainOnceMore(success, tries, retries) == ~success /\ tries < retries

\* whether the loop goes round again: while (!success && (++tries < retries))
\* variant: zero retries read as "retry until matched"
LoopAgainZero(success, tries, retries) ==
    ~success /\ (retries = 0 \/ tries + 1 < retries)

\* variant: the request is sent again although it was matched
LoopAgainMatched(success, tries, retries) == tries + 1 < retries

LoopAgain(success, tries, retries) == ~success /\ tries + 1 < retries

CanStart(t) ==
    /\ ~crashed
    /\ op[t].pc \in {"idle", "done"}
    /\ calls_left > 0

\* setting_create_setting: the entry bound to the codec type_data_lookup
\* finds, when it finds one
setting_create_setting(data_list, section, name, var, var_len, type, notify, notify_context, readonly, watchonly) ==
    setting_data_create(section, name, var, var_len,
                        type_data_lookup(data_list, type) - 1, notify,
                        notify_context, readonly, watchonly)

\* settings_add_setting for a type id; hrc is what the host's register_cb
\* returns during the call
settings_add_setting_type(t, kind, key, var, var_len, type, notify, readonly, watchonly, hrc, src) ==
    /\ CanStart(t)
    /\ calls_left' = calls_left - 1
    /\ UNCHANGED locking
    /\ notified' = <<>> /\ signalled' = <<>>
    /\ UNCHANGED crashed
    /\ IF setting_data_lookup(setting_data_list, key.section, key.name) # 0
       THEN /\ Return(t, kind, key, -1)
            /\ UNCHANGED <<setting_data_list, req_list, sbp_cb_list, host_cbs>>
       ELSE IF type_data_lookup(type_data_list, type) = 0
       THEN \* setting_create_setting returns NULL: "invalid type"
            /\ Return(t, kind, key, -1)
            /\ UNCHANGED <<setting_data_list, req_list, sbp_cb_list, host_cbs>>
       ELSE
         LET sd == setting_create_setting(type_data_list, key.section,
                      key.name, var, var_len, type, notify,
                      IF notify THEN ContextOf(key) ELSE NULL,
                      readonly, watchonly)
             list == setting_data_append(setting_data_list, sd)
         IN  IF watchonly
             THEN \* setting_read_watched_value
               LET s1 == Subscribe(sbp_cb_list, host_cbs,
                                   <<SBP_MSG_SETTINGS_WRITE_RESP>>, hrc)
                   h  == message_header_get(key.section, key.name,
                                            SBP_PAYLOAD_SIZE_MAX)
                   s2 == Subscribe(s1.cbs, s1.host,
                                   <<SBP_MSG_SETTINGS_READ_RESP>>, hrc)
               IN  /\ setting_data_list' = list
                   /\ IF h.n < 0
                      THEN /\ sbp_cb_list' = s1.cbs
                           /\ host_cbs' = s1.host
                           /\ Return(t, kind, key, 0)
                           /\ UNCHANGED req_list
                      ELSE IF ~Registered(s2.cbs, SBP_MSG_SETTINGS_READ_RESP)
                      THEN /\ sbp_cb_list' = s2.cbs
                           /\ host_cbs' = s2.host
                           /\ Return(t, kind, key, 0)
                           /\ UNCHANGED req_list
                      ELSE /\ sbp_cb_list' = s2.cbs
                           /\ host_cbs' = s2.host
                           /\ setting_perform_request_reply_from(t, kind, key,
                                 SBP_MSG_SETTINGS_READ_REQ, h.buf, h.n,
                                 WATCH_INIT_TRIES, <<SBP_SENDER_ID>>, src)
             ELSE \* setting_register
               LET s1 == Subscribe(sbp_cb_list, host_cbs,
                                   <<SBP_MSG_SETTINGS_WRITE,
                                     SBP_MSG_SETTINGS_REGISTER_RESP>>, hrc)
                   f  == setting_format_setting(sd, SBP_PAYLOAD_SIZE_MAX)
               IN  /\ sbp_cb_list' = s1.cbs
                   /\ host_cbs' = s1.host
                   /\ IF f.n < 0
                      THEN /\ setting_data_list' =
                                setting_data_remove(list,
                                   setting_data_lookup(list, key.section,
                                                       key.name)).list
                           /\ Return(t, kind, key, -1)
                           /\ UNCHANGED req_list
                      ELSE /\ setting_data_list' = list
                           /\ setting_perform_request_reply_from(t, kind, key,
                                 SBP_MSG_SETTINGS_REGISTER, f.buf, f.hdr,
                                 REGISTER_TRIES, <<sender_id>>, src)

settings_add_setting(t, kind, key, var, var_len, notify, readonly, watchonly, hrc, src) ==
    settings_add_setting_type(t, kind, key, var, var_len, SETTINGS_TYPE_INT,
                              notify, readonly, watchonly, hrc, src)

settings_register_setting(t, key, var, var_len, notify, hrc, src) ==
    settings_add_setting(t, "register", key, var, var_len, notify, FALSE, FALSE,
                         hrc, src)

\* variant: the entry is created without the readonly flag
settings_register_readonly_rw(t, key, var, var_len, hrc, src) ==
    settings_add_setting(t, "readonly", key, var, var_len, FALSE, FALSE, FALSE,
                         hrc, src)

settings_register_readonly(t, key, var, var_len, hrc, src) ==
    settings_add_setting(t, "readonly", key, var, var_len, FALSE, TRUE, FALSE,
                         hrc, src)

settings_register_watch(t, key, var, var_len, notify, hrc, src) ==
    settings_add_setting(t, "watch", key, var, var_len, notify, FALSE, TRUE,
                         hrc, src)

\* settings_write up to the first wait
settings_write(t, key, value, value_len, hrc, src) ==
    /\ CanStart(t)
    /\ calls_left' = calls_left - 1
    /\ UNCHANGED locking
    /\ notified' = <<>> /\ signalled' = <<>>
    /\ UNCHANGED <<setting_data_list, crashed>>
    /\ LET s1 == Subscribe(sbp_cb_list, host_cbs,
                           <<SBP_MSG_SETTINGS_WRITE_RESP>>, hrc)
           sd == setting_data_create(key.section, key.name, value, value_len,
                    SETTINGS_TYPE_INT, FALSE, NULL, FALSE, FALSE)
           f  == setting_format_setting(sd, SBP_PAYLOAD_SIZE_MAX)
       IN  /\ sbp_cb_list' = s1.cbs
           /\ host_cbs' = s1.host
           /\ IF f.n < 0
              THEN /\ Return(t, "write", key, -1)
                   /\ UNCHANGED req_list
              ELSE setting_perform_request_reply_from(t, "write", key,
                      SBP_MSG_SETTINGS_WRITE, f.buf, f.hdr, REGISTER_TRIES,
                      <<SBP_SENDER_ID>>, src)

\* value_len of settings_read: the width of the caller's buffer
ReadLen == 1

\* settings_read up to the first wait, for a value of the int type and a
\* buffer of ReadLen bytes
settings_read(t, key, hrc, src) ==
    /\ CanStart(t)
    /\ calls_left' = calls_left - 1
    /\ UNCHANGED locking
    /\ notified' = <<>> /\ signalled' = <<>>
    /\ UNCHANGED <<setting_data_list, crashed>>
    /\ LET h  == message_header_get(key.section, key.name,
                                    SBP_PAYLOAD_SIZE_MAX)
           s1 == Subscribe(sbp_cb_list, host_cbs,
                           <<SBP_MSG_SETTINGS_READ_RESP>>, hrc)
       IN  IF h.n < 0
           THEN /\ Return(t, "read", key, -1)
                /\ UNCHANGED <<req_list, sbp_cb_list, host_cbs>>
           ELSE /\ sbp_cb_list' = s1.cbs
                /\ host_cbs' = s1.host
                /\ IF ~Registered(s1.cbs, SBP_MSG_SETTINGS_READ_RESP)
                   THEN /\ Return(t, "read", key, -1)
                        /\ UNCHANGED req_list
                   ELSE setting_perform_request_reply_from(t, "read", key,
                           SBP_MSG_SETTINGS_READ_REQ, h.buf, h.n,
                           WATCH_INIT_TRIES, <<SBP_SENDER_ID>>, src)

\* (char *)&idx, sizeof(uint16_t): the index as it lies in memory, low byte
\* first
IdxBytes(idx) == <<idx % 256, (idx \div 256) % 256>>

\* settings_read_by_idx up to the first wait: s1 and s2 are what the two
\* subscriptions gave
read_by_idx_start(t, idx, hrc, src, s1, s2) ==
    IF ~Registered(s1.cbs, SBP_MSG_SETTINGS_READ_BY_INDEX_RESP)
       \/ ~Registered(s2.cbs, SBP_MSG_SETTINGS_READ_BY_INDEX_DONE)
    THEN \* read_by_idx_cleanup
      /\ sbp_cb_list' =
            Unsubscribe(IF ~Registered(s1.cbs,
                                       SBP_MSG_SETTINGS_READ_BY_INDEX_RESP)
                        THEN s1.cbs ELSE s2.cbs,
                        IF ~Registered(s1.cbs,
                                       SBP_MSG_SETTINGS_READ_BY_INDEX_RESP)
                        THEN s1.host ELSE s2.host,
                        <<SBP_MSG_SETTINGS_READ_BY_INDEX_RESP,
                          SBP_MSG_SETTINGS_READ_BY_INDEX_DONE>>, hrc).cbs
      /\ host_cbs' =
            Unsubscribe(IF ~Registered(s1.cbs,
                                       SBP_MSG_SETTINGS_READ_BY_INDEX_RESP)
                        THEN s1.cbs ELSE s2.cbs,
                        IF ~Registered(s1.cbs,
                                       SBP_MSG_SETTINGS_READ_BY_INDEX_RESP)
                        THEN s1.host ELSE s2.host,
                        <<SBP_MSG_SETTINGS_READ_BY_INDEX_RESP,
                          SBP_MSG_SETTINGS_READ_BY_INDEX_DONE>>, hrc).host
      /\ Return(t, "read_by_idx", K1, -1)
      /\ UNCHANGED req_list
    ELSE
      /\ sbp_cb_list' = s2.cbs
      /\ host_cbs' = s2.host
      /\ setting_perform_request_reply_from(t, "read_by_idx", K1,
            SBP_MSG_SETTINGS_READ_BY_INDEX_REQ, IdxBytes(idx), 2,
            WATCH_INIT_TRIES, <<SBP_SENDER_ID>>, src)

settings_read_by_idx(t, idx, hrc, src) ==
    /\ CanStart(t)
    /\ calls_left' = calls_left - 1
    /\ UNCHANGED locking
    /\ notified' = <<>> /\ signalled' = <<>>
    /\ UNCHANGED <<setting_data_list, crashed>>
    /\ read_by_idx_start(t, idx, hrc, src,
          Subscribe(sbp_cb_list, host_cbs,
                    <<SBP_MSG_SETTINGS_READ_BY_INDEX_RESP>>, hrc),
          Subscribe(sbp_cb_list, host_cbs,
                    <<SBP_MSG_SETTINGS_READ_BY_INDEX_RESP,
                      SBP_MSG_SETTINGS_READ_BY_INDEX_DONE>>, hrc))

\* strtol(str, NULL, 10)
strtol(str) == IF ScanInt(str).ok THEN ScanInt(str).v ELSE 0

\* settings_read after the loop: [result, var]; state is the request, var
\* the caller's buffer before the call, conv what from_string makes of the
\* response value
read_convert(state, type, var, conv) ==
    IF type # (IF state.resp_type = <<>> THEN type
               ELSE IF IsPrefix(<<101, 110, 117, 109, 58>>, state.resp_type)
               THEN SETTINGS_TYPE_STRING
               ELSE strtol(state.resp_type))
    THEN [result |-> -1, var |-> var]
    ELSE IF ~conv.ok THEN [result |-> -1, var |-> conv.blob]
    ELSE [result |-> 0, var |-> conv.blob]

\* settings_read_by_idx after the loop: [result, resp]; resp is what the
\* caller's section, name, value and type buffers hold
read_by_idx_result(state, success) ==
    IF ~success THEN [result |-> -1, resp |-> <<>>]
    ELSE [result |-> IF state.read_by_idx_done THEN 1 ELSE 0,
          resp   |-> <<state.resp_section, state.resp_name, state.resp_value,
                       state.resp_type>>]

\* a read call ends: c is what the call hands out, u the callback lists
\* after its unsubscriptions
ReadDone(t, left, c, u) ==
    /\ op' = [op EXCEPT ![t] = [left EXCEPT !.pc = "done",
                                            !.result = c.result,
                                            !.var = c.var,
                                            !.resp = c.resp]]
    /\ sbp_cb_list' = u.cbs
    /\ host_cbs' = u.host
    /\ UNCHANGED <<setting_data_list, crashed>>

\* after the loop: the request is closed and unlinked and the call returns.
\* hrc is what the host's unregister_cb returns if it is called; fault says
\* whether the read through NULL in the list removal stops the process.
AfterLoop(t, left, state, hrc, fault) ==
    /\ req_list' = request_state_remove(req_list, t)
    /\ CASE left.kind = "write" ->
              \* settings_write returns the status the reply left
              /\ op' = [op EXCEPT ![t] = [left EXCEPT !.pc = "done",
                                                     !.result = state.status]]
              /\ ~fault /\ hrc = 0
              /\ UNCHANGED <<setting_data_list, sbp_cb_list, host_cbs, crashed>>
         [] left.kind = "watch" ->
              \* setting_read_watched_value unsubscribes READ_RESP;
              \* settings_add_setting returns 0 whatever that returned
              LET u == setting_sbp_cb_unregister(sbp_cb_list,
                          SBP_MSG_SETTINGS_READ_RESP, hrc)
              IN  /\ op' = [op EXCEPT ![t] = [left EXCEPT !.pc = "done",
                                                         !.result = 0]]
                  /\ ~fault
                  /\ sbp_cb_list' = u.list
                  /\ host_cbs' = IF u.host
                                 THEN Unlinked(host_cbs,
                                               SBP_MSG_SETTINGS_READ_RESP)
                                 ELSE host_cbs
                  /\ UNCHANGED <<setting_data_list, crashed>>
         [] left.kind = "read" ->
              /\ ~fault
              /\ ReadDone(t, left,
                    IF ~left.success
                    THEN [result |-> -1, var |-> left.var, resp |-> <<>>]
                    ELSE [resp |-> <<>>] @@
                         read_convert(state, SETTINGS_TYPE_INT, left.var,
                            int_from_string(left.var, ReadLen,
                                            state.resp_value)),
                    Unsubscribe(sbp_cb_list, host_cbs,
                                <<SBP_MSG_SETTINGS_READ_RESP>>, hrc))
         [] left.kind = "read_by_idx" ->
              /\ ~fault
              /\ ReadDone(t, left,
                    [var |-> left.var] @@
                      read_by_idx_result(state, left.success),
                    Unsubscribe(sbp_cb_list, host_cbs,
                                <<SBP_MSG_SETTINGS_READ_BY_INDEX_RESP,
                                  SBP_MSG_SETTINGS_READ_BY_INDEX_DONE>>, hrc))
         [] left.kind = "perform" ->
              \* setting_perform_request_reply_from itself returns
              /\ op' = [op EXCEPT ![t] = [left EXCEPT
                           !.pc = "done",
                           !.result = IF left.success THEN 0 ELSE -1]]
              /\ ~fault /\ hrc = 0
              /\ UNCHANGED <<setting_data_list, sbp_cb_list, host_cbs, crashed>>
         [] OTHER ->
              \* settings_add_setting: a failed register unlinks the entry
              /\ hrc = 0
              /\ UNCHANGED <<sbp_cb_list, host_cbs>>
              /\ IF left.success
                 THEN /\ ~fault
                      /\ op' = [op EXCEPT ![t] = [left EXCEPT !.pc = "done",
                                                             !.result = 0]]
                      /\ UNCHANGED <<setting_data_list, crashed>>
                 ELSE
                   LET r == setting_data_remove(setting_data_list,
                               setting_data_lookup(setting_data_list,
                                  left.key.section, left.key.name))
                   IN  /\ setting_data_list' = r.list
                       /\ fault => r.fault
                       /\ crashed' = fault
                       /\ op' = [op EXCEPT ![t] =
                                   IF fault THEN [left EXCEPT !.pc = "fault"]
                                   ELSE [left EXCEPT !.pc = "done",
                                                     !.result = -1]]

\* one round of the loop: the host's wait returns rc (0, or non-zero for a
\* timeout); then either the payload is sent again (send_from returns src)
\* or the loop is left and the call returns.  Inputs a round does not use
\* are held at 0 / FALSE.
setting_perform_request_reply_from_wait(t, rc, src, hrc, fault) ==
    /\ ~crashed
    /\ op[t].pc = "wait"
    /\ notified' = <<>> /\ signalled' = <<>>
    /\ UNCHANGED <<calls_left, locking>>
    /\ LET state   == request_state_deinit(req_list[ReqOf(req_list, t)])
           success == IF rc # 0 THEN FALSE ELSE request_state_match(state)
           left    == [op[t] EXCEPT !.waits = @ + 1, !.success = success,
                                    !.tries = IF success THEN @ ELSE @ + 1]
       IN  IF LoopAgain(success, op[t].tries, op[t].retries)
           THEN /\ hrc = 0 /\ ~fault
                /\ out' = <<[msg_id |-> op[t].msg_id, payload |-> op[t].msg,
                             from |-> op[t].from]>>
                /\ op' = [op EXCEPT ![t] = [left EXCEPT
                                              !.sends = @ + 1,
                                              !.send_failed = @ \/ src # 0]]
                /\ UNCHANGED <<setting_data_list, req_list, sbp_cb_list,
                               host_cbs, crashed>>
           ELSE /\ src = 0
                /\ out' = <<>>
                /\ AfterLoop(t, left, state, hrc, fault)

(***************************************************************************)
(* One caller, one synchronous call, every inbound message.                *)
(***************************************************************************)
Init == Created /\ calls_left = 1

Next ==
    \/ \E key \in Keys, var \in InitVals, var_len \in VarLens,
          notify \in BOOLEAN, hrc \in HostRets, src \in HostRets :
          settings_register_setting(1, key, var, var_len, notify, hrc, src)
    \/ \E key \in Keys, var \in InitVals, var_len \in VarLens,
          hrc \in HostRets, src \in HostRets :
          settings_register_readonly(1, key, var, var_len, hrc, src)
    \/ \E key \in Keys, var \in InitVals, var_len \in VarLens,
          notify \in BOOLEAN, hrc \in HostRets, src \in HostRets :
          settings_register_watch(1, key, var, var_len, notify, hrc, src)
    \/ \E key \in Keys, value \in WriteVals, value_len \in VarLens,
          hrc \in HostRets, src \in HostRets :
          settings_write(1, key, value, value_len, hrc, src)
    \/ \E rc \in HostRets, src \in HostRets, hrc \in HostRets,
          fault \in BOOLEAN :
          setting_perform_request_reply_from_wait(1, rc, src, hrc, fault)
    \/ \E m \in InRegisterResp, nrc \in NotifyRetsOf(setting_data_list) :
          setting_register_resp_callback(m.from, m.msg, nrc)
    \/ \E m \in InWrite, nrc \in NotifyRetsOf(setting_data_list) :
          setting_write_callback(m.from, m.msg, nrc)
    \/ \E m \in InReadResp, nrc \in NotifyRetsOf(setting_data_list) :
          setting_read_resp_callback(m.from, m.msg, nrc)
    \/ \E m \in InWriteResp, nrc \in NotifyRetsOf(setting_data_list) :
          setting_write_resp_callback(m.from, m.msg, nrc)

Spec == Init /\ [][Next]_vars

(***************************************************************************)
(* One caller, MaxOps calls one after the other, the inbound messages that *)
(* carry the value "7".                                                    *)
(***************************************************************************)
SevenBodies == {Header(k) \o <<55, 0>> : k \in Keys}

InitCalls == Created /\ calls_left = MaxOps

NextCalls ==
    \/ \E key \in Keys, var \in InitVals, var_len \in VarLens,
          notify \in BOOLEAN, hrc \in HostRets, src \in HostRets :
          settings_register_setting(1, key, var, var_len, notify, hrc, src)
    \/ \E key \in Keys, var \in InitVals, var_len \in VarLens,
          hrc \in HostRets, src \in HostRets :
          settings_register_readonly(1, key, var, var_len, hrc, src)
    \/ \E key \in Keys, var \in InitVals, var_len \in VarLens,
          notify \in BOOLEAN, hrc \in HostRets, src \in HostRets :
          settings_register_watch(1, key, var, var_len, notify, hrc, src)
    \/ \E rc \in HostRets, src \in HostRets, hrc \in HostRets,
          fault \in BOOLEAN :
          setting_perform_request_reply_from_wait(1, rc, src, hrc, fault)
    \/ \E b \in SevenBodies, nrc \in NotifyRetsOf(setting_data_list) :
          setting_register_resp_callback(SBP_SENDER_ID,
                                         <<SETTINGS_REG_OK>> \o b, nrc)
    \/ \E b \in SevenBodies, nrc \in NotifyRetsOf(setting_data_list) :
          setting_read_resp_callback(SBP_SENDER_ID, b, nrc)

SpecCalls == InitCalls /\ [][NextCalls]_vars

(***************************************************************************)
(* Several callers at once: thread 1 registers settings while the other    *)
(* threads write settings; MaxOps calls in all.                            *)
(***************************************************************************)
RegAccepted == {SETTINGS_REG_OK, SETTINGS_REG_OK_PERM, SETTINGS_REG_REGISTERED}

NextMT ==
    \/ \E key \in Keys, var \in InitVals, var_len \in VarLens,
          notify \in BOOLEAN :
          settings_register_setting(1, key, var, var_len, notify, 0, 0)
    \/ \E t \in Threads \ {1}, key \in Keys, value \in WriteVals,
          value_len \in VarLens :
          settings_write(t, key, value, value_len, 0, 0)
    \/ \E t \in Threads, rc \in HostRets, fault \in BOOLEAN :
          setting_perform_request_reply_from_wait(t, rc, 0, 0, fault)
    \/ \E b \in SevenBodies, st \in RegAccepted,
          nrc \in NotifyRetsOf(setting_data_list) :
          setting_register_resp_callback(SBP_SENDER_ID, <<st>> \o b, nrc)
    \/ \E b \in SevenBodies, nrc \in NotifyRetsOf(setting_data_list) :
          setting_write_resp_callback(SBP_SENDER_ID, <<SETTINGS_WR_OK>> \o b, nrc)

SpecMT == InitCalls /\ [][NextMT]_vars

(***************************************************************************)
(* The read calls: MaxOps calls of settings_read / settings_read_by_idx by *)
(* any of the threads, also at the same time, and the three kinds of       *)
(* replies to them.  The host's send never fails here.                     *)
(***************************************************************************)
\* the indexes asked for: 1 and 256 differ in which of the two bytes is set
Idxs == {1, 256}

\* a setting payload with the type token "0" (int) resp. "2" (string)
TypedBody(ty) == OneBody \o <<ty, 0>>

\* a setting payload with the type token "enum:a"
EnumTag == <<101, 110, 117, 109, 58>>
EnumBody == OneBody \o EnumTag \o <<97, 0>>

\* READ_RESP payloads: values for both settings, a typed value, a value of
\* another type, a value of an enum type, and the reply for an unknown
\* setting
ReadBodies ==
    SevenBodies \cup {TypedBody(48), TypedBody(50), EnumBody, Header(K1)}

\* READ_BY_INDEX_RESP payloads: for each index a typed setting and one that
\* lacks its terminating NUL
IndexBodies ==
    {IdxBytes(idx) \o b : idx \in Idxs, b \in {TypedBody(48), Unterminated}}

InitRead == Created /\ calls_left = MaxOps

NextRead ==
    \/ \E t \in Threads, key \in Keys, hrc \in HostRets :
          settings_read(t, key, hrc, 0)
    \/ \E t \in Threads, idx \in Idxs, hrc \in HostRets :
          settings_read_by_idx(t, idx, hrc, 0)
    \/ \E t \in Threads, rc \in HostRets, hrc \in HostRets :
          setting_perform_request_reply_from_wait(t, rc, 0, hrc, FALSE)
    \/ \E b \in ReadBodies :
          setting_read_resp_callback(SBP_SENDER_ID, b, SETTINGS_WR_OK)
    \/ \E m \in IndexBodies :
          setting_read_by_index_resp_callback(SBP_SENDER_ID, m)
    \/ setting_read_by_index_done_callback(SBP_SENDER_ID, <<>>)

SpecRead == InitRead /\ [][NextRead]_vars

(***************************************************************************)
(* The callback multiplexer called on its own, as its unit test does:      *)
(* MaxCbCalls calls of setting_sbp_cb_register / setting_sbp_cb_unregister *)
(* for any of the six message ids.  The call is recorded in op[1]: kind,   *)
(* msg_id and, as result, what the function returned.                      *)
(***************************************************************************)
MsgIds ==
    {SBP_MSG_SETTINGS_REGISTER_RESP, SBP_MSG_SETTINGS_WRITE,
     SBP_MSG_SETTINGS_WRITE_RESP, SBP_MSG_SETTINGS_READ_RESP,
     SBP_MSG_SETTINGS_READ_BY_INDEX_RESP, SBP_MSG_SETTINGS_READ_BY_INDEX_DONE}

\* a call of the multiplexer returns: r is what the function returned, host
\* the host's callback table after the call
CbCalled(kind, msg_id, r, host) ==
    /\ calls_left > 0
    /\ calls_left' = calls_left - 1
    /\ UNCHANGED locking
    /\ sbp_cb_list' = r.list
    /\ host_cbs' = host
    /\ op' = [op EXCEPT ![1] = [IdleOp EXCEPT !.kind = kind, !.pc = "done",
                                             !.msg_id = msg_id,
                                             !.result = r.rc]]
    /\ out' = <<>> /\ notified' = <<>> /\ signalled' = <<>>
    /\ UNCHANGED <<setting_data_list, req_list, crashed>>

\* setting_sbp_cb_register(ctx, msg_id); the host's register_cb returns hrc
CallRegister(msg_id, hrc) ==
    CbCalled("cb_register", msg_id,
             setting_sbp_cb_register(sbp_cb_list, msg_id, hrc),
             IF setting_sbp_cb_register(sbp_cb_list, msg_id, hrc).host
             THEN Append(host_cbs, msg_id) ELSE host_cbs)

\* setting_sbp_cb_unregister(ctx, msg_id); the host's unregister_cb returns
\* hrc
CallUnregister(msg_id, hrc) ==
    CbCalled("cb_unregister", msg_id,
             setting_sbp_cb_unregister(sbp_cb_list, msg_id, hrc),
             IF setting_sbp_cb_unregister(sbp_cb_list, msg_id, hrc).host
             THEN Unlinked(host_cbs, msg_id) ELSE host_cbs)

InitCb == Created /\ calls_left = MaxCbCalls

NextCb ==
    \/ \E msg_id \in MsgIds, hrc \in HostRets : CallRegister(msg_id, hrc)
    \/ \E msg_id \in MsgIds, hrc \in HostRets : CallUnregister(msg_id, hrc)

SpecCb == InitCb /\ [][NextCb]_vars

(***************************************************************************)
(* The token codec called on its own, as its unit test does: one call of   *)
(* settings_format or settings_parse with any arguments, and after a       *)
(* successful settings_format a call of settings_parse on the bytes it     *)
(* produced.  The call is recorded in op[1]: kind, the arguments (tokens,  *)
(* blen, buf, want) and what the function returned (result, slots).        *)
(***************************************************************************)
\* the bytes of the buffers: NUL and 'a'
BufBytes == {0, 97}
\* every buffer of at most MaxBufLen bytes; its length is the blen passed
Bufs == UNION {[1..n -> BufBytes] : n \in 0..MaxBufLen}

\* the strings passed to settings_format: "", "a", "ab", or no string
TokenArgs == {<<>>, <<97>>, <<97, 98>>, NULL}

\* which of the output slots section, name, value, type the caller passes
Wants == [1..4 -> BOOLEAN]

UtilOp ==
    [kind |-> "none", pc |-> "idle", tokens |-> <<>>, blen |-> 0,
     buf |-> <<>>, want |-> [i \in 1..4 |-> TRUE], result |-> 0,
     slots |-> <<>>, blob |-> 0, ok |-> FALSE]

\* the output slots after settings_parse returned p
SlotsOf(p) == <<p.section, p.name, p.value, p.type>>

\* a call of the token codec returns
UtilCalled(rec) ==
    /\ calls_left > 0
    /\ calls_left' = calls_left - 1
    /\ UNCHANGED locking
    /\ op' = [op EXCEPT ![1] = rec]
    /\ out' = <<>> /\ notified' = <<>> /\ signalled' = <<>>
    /\ UNCHANGED <<setting_data_list, req_list, sbp_cb_list, host_cbs, crashed>>

\* n = settings_format(section, name, value, type, buf, blen)
CallFormat(section, name, value, type, blen) ==
    /\ op[1].kind = "none"
    /\ UtilCalled([UtilOp EXCEPT
           !.kind = "format", !.pc = "done",
           !.tokens = <<section, name, value, type>>, !.blen = blen,
           !.buf = settings_format(section, name, value, type, blen).buf,
           !.result = settings_format(section, name, value, type, blen).n])

\* settings_parse(buf, blen, ...) on any buffer
CallParse(buf, want) ==
    /\ op[1].kind = "none"
    /\ UtilCalled([UtilOp EXCEPT
           !.kind = "parse", !.pc = "done", !.blen = Len(buf), !.buf = buf,
           !.want = want,
           !.result = settings_parse(buf, want[1], want[2], want[3], want[4]).tokens,
           !.slots = SlotsOf(settings_parse(buf, want[1], want[2], want[3], want[4]))])

\* settings_parse(buf, n, ...) on the n bytes the settings_format call before
\* has written
CallParseFormatted(want) ==
    /\ op[1].kind = "format"
    /\ op[1].result >= 0
    /\ UtilCalled([op[1] EXCEPT
           !.kind = "parse_formatted", !.want = want,
           !.result = settings_parse(op[1].buf, want[1], want[2], want[3], want[4]).tokens,
           !.slots = SlotsOf(settings_parse(op[1].buf, want[1], want[2], want[3], want[4]))])

\* the numbers whose decimal text is handed to the int codec, and texts
\* that are no number: "x", "" and "-"
IntVals ==
    {-2147483647, -32768, -129, -128, -1, 0, 7, 127, 128, 200, 255, 256,
     32767, 40000, 2147483647}
IntTexts == {IntToText(v) : v \in IntVals} \cup {<<120>>, <<>>, <<45>>}
\* the widths of the storage: 1, 2 and 4 bytes, and an unsupported one
BlobLens == {1, 2, 3, 4}

\* does the number of str fit the object sscanf converts into: an int16_t
\* for 1 and 2 bytes of storage, an int32_t for 4 (the conversion of a
\* number that does not fit is undefined and is not asked for)
ScanDefined(blen, str) ==
    ScanInt(str).ok =>
        Wrap(ScanInt(str).v, IF blen = 4 THEN 4 ELSE 2) = ScanInt(str).v

\* ok = int_from_string(NULL, &blob, blen, str)
CallIntFromString(blob, blen, str) ==
    /\ op[1].kind = "none"
    /\ ScanDefined(blen, str)
    /\ UtilCalled([UtilOp EXCEPT
           !.kind = "int_from_string", !.pc = "done", !.blen = blen,
           !.buf = str,
           !.ok = int_from_string(blob, blen, str).ok,
           !.blob = int_from_string(blob, blen, str).blob])

InitUtil ==
    /\ type_data_list = settings_create_types
    /\ lock = 0
    /\ cb = CbIdle
    /\ setting_data_list = <<>>
    /\ req_list = <<>>
    /\ sbp_cb_list = <<>>
    /\ host_cbs = <<>>
    /\ op = [t \in Threads |-> UtilOp]
    /\ calls_left = 2
    /\ crashed = FALSE
    /\ out = <<>>
    /\ notified = <<>>
    /\ signalled = <<>>

NextUtil ==
    \/ \E section \in TokenArgs, name \in TokenArgs, value \in TokenArgs,
          type \in TokenArgs, blen \in 0..MaxBufLen :
          CallFormat(section, name, value, type, blen)
    \/ \E buf \in Bufs, want \in Wants : CallParse(buf, want)
    \/ \E want \in Wants : CallParseFormatted(want)
    \/ \E blob \in InitVals, blen \in BlobLens, str \in IntTexts :
          CallIntFromString(blob, blen, str)

SpecUtil == InitUtil /\ [][NextUtil]_vars

(***************************************************************************)
(* The type registry: enum types registered after settings_create, and     *)
(* settings registered under a type id.                                    *)
(***************************************************************************)
MaxTypeCalls == 3

EnumNames == {<<"a">>, <<"a", "b">>}

TypeIds == -2..7

\* settings_register_enum: result is what the call returns, var the id it
\* stores through its type pointer (-1: nothing stored)
settings_register_enum(t, enum_names, alloc) ==
    /\ CanStart(t)
    /\ calls_left' = calls_left - 1
    /\ LET r == type_register(type_data_list, "enum_to_string",
                              "enum_from_string", "enum_format_type",
                              enum_names, alloc)
       IN  /\ type_data_list' = r.list
           /\ op' = [op EXCEPT ![t] = [IdleOp EXCEPT
                        !.kind = "register_enum", !.pc = "done",
                        !.result = r.rc, !.var = r.type]]
    /\ out' = <<>> /\ notified' = <<>> /\ signalled' = <<>>
    /\ UNCHANGED <<setting_data_list, req_list, sbp_cb_list, host_cbs, crashed,
                   lock, cb>>

\* the type ids whose entry the integer codec serves, or that have no codec
IntOrNone(data_list, type) ==
    LET p == type_data_lookup(data_list, type)
    IN  IF p = 0 THEN TRUE ELSE data_list[p].to_string = "int_to_string"

InitTypes == Created /\ calls_left = MaxTypeCalls

NextTypes ==
    \/ \E enum_names \in EnumNames, alloc \in BOOLEAN :
          settings_register_enum(1, enum_names, alloc)
    \/ \E key \in Keys, var \in InitVals, type \in TypeIds,
          hrc \in HostRets, src \in HostRets :
          /\ IntOrNone(type_data_list, type)
          /\ settings_add_setting_type(1, "register", key, var, 4, type,
                                       FALSE, FALSE, FALSE, hrc, src)
    \/ \E rc \in HostRets, src \in HostRets, hrc \in HostRets :
          setting_perform_request_reply_from_wait(1, rc, src, hrc, FALSE)

SpecTypes == InitTypes /\ [][NextTypes]_vars

(***************************************************************************)
(* The context lock.  The calls and the handlers are taken one critical    *)
(* section at a time: a thread stands before a LIBSETTINGS_LOCK, inside    *)
(* the section it opened, or between two sections, and the host thread     *)
(* that delivers the inbound messages runs beside the calling threads.     *)
(***************************************************************************)
MaxLockCalls == 2

\* the host thread that runs the handlers
CbThread == NumThreads + 1

\* todo: the message ids still to register or unregister; cbs: the ids of
\* the call; hdr: the length of the compare data
LockOp ==
    [kind |-> "none", pc |-> "idle", msg_id |-> "none", msg |-> <<>>,
     hdr |-> 0, cbs |-> <<>>, todo |-> <<>>, tries |-> 0, retries |-> 0,
     success |-> FALSE, result |-> 0]

\* LIBSETTINGS_UNLOCK: the lock is free again
LIBSETTINGS_UNLOCK(holder) == 0

\* variant: "already registered" returns with the lock held
setting_sbp_cb_register_unlock_dup(list, msg_id, hrc, holder) ==
    IF Registered(list, msg_id) THEN holder
    ELSE IF hrc # 0 THEN LIBSETTINGS_UNLOCK(holder)
    ELSE LIBSETTINGS_UNLOCK(holder)

\* the lock after setting_sbp_cb_register, exit by exit
setting_sbp_cb_register_unlock(list, msg_id, hrc, holder) ==
    IF Registered(list, msg_id) THEN LIBSETTINGS_UNLOCK(holder)
    ELSE IF hrc # 0 THEN LIBSETTINGS_UNLOCK(holder)
    ELSE LIBSETTINGS_UNLOCK(holder)

\* the lock after setting_sbp_cb_unregister, exit by exit
setting_sbp_cb_unregister_unlock(list, msg_id, hrc, holder) ==
    IF list = <<>> THEN LIBSETTINGS_UNLOCK(holder)
    ELSE IF ~Registered(list, msg_id) THEN LIBSETTINGS_UNLOCK(holder)
    ELSE LIBSETTINGS_UNLOCK(holder)

\* the positions before a LIBSETTINGS_LOCK and inside the section it opens
LockPcs == {"register", "append", "remove", "unregister", "free"}

AfterLock(pc) ==
    CASE pc = "register"   -> "register_locked"
      [] pc = "append"     -> "append_locked"
      [] pc = "remove"     -> "remove_locked"
      [] pc = "unregister" -> "unregister_locked"
      [] pc = "free"       -> "free_locked"

LockedPcs == {AfterLock(pc) : pc \in LockPcs}

\* a calling thread changes its position; the rest of the state stays
Step(t, rec, sent) ==
    /\ op' = [op EXCEPT ![t] = rec]
    /\ out' = sent
    /\ signalled' = <<>>
    /\ UNCHANGED <<setting_data_list, type_data_list, crashed, notified,
                   calls_left, cb>>

\* settings_read up to the LIBSETTINGS_LOCK of setting_sbp_cb_register
settings_read_start(t, key) ==
    /\ CanStart(t)
    /\ calls_left' = calls_left - 1
    /\ op' = [op EXCEPT ![t] = [LockOp EXCEPT
                 !.kind = "read", !.pc = "register",
                 !.msg_id = SBP_MSG_SETTINGS_READ_REQ,
                 !.msg = message_header_get(key.section, key.name,
                                            SBP_PAYLOAD_SIZE_MAX).buf,
                 !.hdr = message_header_get(key.section, key.name,
                                            SBP_PAYLOAD_SIZE_MAX).n,
                 !.cbs = <<SBP_MSG_SETTINGS_READ_RESP>>,
                 !.todo = <<SBP_MSG_SETTINGS_READ_RESP>>,
                 !.retries = WATCH_INIT_TRIES]]
    /\ out' = <<>> /\ signalled' = <<>>
    /\ UNCHANGED <<setting_data_list, type_data_list, crashed, notified, cb,
                   req_list, sbp_cb_list, host_cbs, lock>>

\* settings_read_by_idx up to the LIBSETTINGS_LOCK of
\* setting_sbp_cb_register
settings_read_by_idx_start(t, idx) ==
    /\ CanStart(t)
    /\ calls_left' = calls_left - 1
    /\ op' = [op EXCEPT ![t] = [LockOp EXCEPT
                 !.kind = "read_by_idx", !.pc = "register",
                 !.msg_id = SBP_MSG_SETTINGS_READ_BY_INDEX_REQ,
                 !.msg = IdxBytes(idx), !.hdr = 2,
                 !.cbs = <<SBP_MSG_SETTINGS_READ_BY_INDEX_RESP,
                           SBP_MSG_SETTINGS_READ_BY_INDEX_DONE>>,
                 !.todo = <<SBP_MSG_SETTINGS_READ_BY_INDEX_RESP,
                            SBP_MSG_SETTINGS_READ_BY_INDEX_DONE>>,
                 !.retries = WATCH_INIT_TRIES]]
    /\ out' = <<>> /\ signalled' = <<>>
    /\ UNCHANGED <<setting_data_list, type_data_list, crashed, notified, cb,
                   req_list, sbp_cb_list, host_cbs, lock>>

\* LIBSETTINGS_LOCK on a calling thread: it blocks while the lock is taken
LIBSETTINGS_LOCK(t) ==
    /\ op[t].pc \in LockPcs
    /\ lock = 0
    /\ lock' = t
    /\ Step(t, [op[t] EXCEPT !.pc = AfterLock(@)], <<>>)
    /\ UNCHANGED <<req_list, sbp_cb_list, host_cbs>>

\* setting_sbp_cb_register after its LIBSETTINGS_LOCK.  A failed
\* registration ends settings_read with -1 and sends settings_read_by_idx
\* to read_by_idx_cleanup.
setting_sbp_cb_register_locked(t, hrc, msg_id, r) ==
    /\ sbp_cb_list' = r.list
    /\ host_cbs' = IF r.host THEN Append(host_cbs, msg_id) ELSE host_cbs
    /\ lock' = setting_sbp_cb_register_unlock(sbp_cb_list, msg_id, hrc, lock)
    /\ UNCHANGED req_list
    /\ Step(t,
            IF r.rc < 0
            THEN IF op[t].kind = "read"
                 THEN [op[t] EXCEPT !.pc = "done", !.result = -1]
                 ELSE [op[t] EXCEPT !.pc = "unregister", !.result = -1,
                                    !.todo = op[t].cbs]
            ELSE IF Tail(op[t].todo) = <<>>
                 THEN [op[t] EXCEPT !.pc = "append", !.todo = <<>>]
                 ELSE [op[t] EXCEPT !.pc = "register", !.todo = Tail(@)],
            <<>>)

setting_sbp_cb_register_step(t, hrc) ==
    /\ op[t].pc = "register_locked"
    /\ setting_sbp_cb_register_locked(t, hrc, Head(op[t].todo),
          setting_sbp_cb_register(sbp_cb_list, Head(op[t].todo), hrc))

\* request_state_append after its LIBSETTINGS_LOCK
request_state_append_step(t) ==
    /\ op[t].pc = "append_locked"
    /\ req_list' = request_state_append(req_list,
                      request_state_init(t, EventOf(t), op[t].msg_id,
                                         op[t].msg, op[t].hdr))
    /\ lock' = LIBSETTINGS_UNLOCK(lock)
    /\ UNCHANGED <<sbp_cb_list, host_cbs>>
    /\ Step(t, [op[t] EXCEPT !.pc = "send"], <<>>)

\* send_from, then the thread blocks in wait / wait_thd
send_from_step(t) ==
    /\ op[t].pc = "send"
    /\ UNCHANGED <<req_list, sbp_cb_list, host_cbs, lock>>
    /\ Step(t, [op[t] EXCEPT !.pc = "wait"],
            <<[msg_id |-> op[t].msg_id, payload |-> op[t].msg,
               from |-> <<SBP_SENDER_ID>>]>>)

\* wait / wait_thd returns rc; after the loop request_state_deinit clears
\* pending
wait_returned(t, i, success) ==
    IF LoopAgain(success, op[t].tries, op[t].retries)
    THEN /\ UNCHANGED req_list
         /\ Step(t, [op[t] EXCEPT !.pc = "send", !.tries = @ + 1], <<>>)
    ELSE /\ req_list' = [req_list EXCEPT ![i] = request_state_deinit(@)]
         /\ Step(t, [op[t] EXCEPT !.pc = "remove", !.success = success,
                                  !.result = IF success THEN 0 ELSE -1],
                 <<>>)

wait_step(t, rc) ==
    /\ op[t].pc = "wait"
    /\ UNCHANGED <<sbp_cb_list, host_cbs, lock>>
    /\ wait_returned(t, ReqOf(req_list, t),
                     IF rc # 0 THEN FALSE
                     ELSE request_state_match(req_list[ReqOf(req_list, t)]))

\* request_state_remove after its LIBSETTINGS_LOCK
request_state_remove_step(t) ==
    /\ op[t].pc = "remove_locked"
    /\ req_list' = request_state_remove(req_list, t)
    /\ lock' = LIBSETTINGS_UNLOCK(lock)
    /\ UNCHANGED <<sbp_cb_list, host_cbs>>
    /\ Step(t, [op[t] EXCEPT !.pc = "unregister", !.todo = op[t].cbs], <<>>)

\* setting_sbp_cb_unregister after its LIBSETTINGS_LOCK
setting_sbp_cb_unregister_locked(t, hrc, msg_id, u) ==
    /\ sbp_cb_list' = u.list
    /\ host_cbs' = IF u.host THEN Unlinked(host_cbs, msg_id) ELSE host_cbs
    /\ lock' = setting_sbp_cb_unregister_unlock(sbp_cb_list, msg_id, hrc, lock)
    /\ UNCHANGED req_list
    /\ Step(t,
            IF Tail(op[t].todo) = <<>>
            THEN [op[t] EXCEPT !.pc = "done", !.todo = <<>>]
            ELSE [op[t] EXCEPT !.pc = "unregister", !.todo = Tail(@)],
            <<>>)

setting_sbp_cb_unregister_step(t, hrc) ==
    /\ op[t].pc = "unregister_locked"
    /\ setting_sbp_cb_unregister_locked(t, hrc, Head(op[t].todo),
          setting_sbp_cb_unregister(sbp_cb_list, Head(op[t].todo), hrc))

\* the context is torn down when no call and no handler runs: the thread
\* stands before the LIBSETTINGS_LOCK of request_state_free, and no call
\* follows
request_state_free_start(t) ==
    /\ CanStart(t)
    /\ \A u \in Threads : op[u].pc \in {"idle", "done"}
    /\ cb.pc = "idle"
    /\ calls_left' = 0
    /\ op' = [op EXCEPT ![t] = [LockOp EXCEPT !.kind = "free", !.pc = "free"]]
    /\ out' = <<>> /\ signalled' = <<>>
    /\ UNCHANGED <<setting_data_list, type_data_list, crashed, notified, cb,
                   req_list, sbp_cb_list, host_cbs, lock>>

\* request_state_free after its LIBSETTINGS_LOCK
request_state_free_step(t) ==
    /\ op[t].pc = "free_locked"
    /\ req_list' = <<>>
    /\ lock' = LIBSETTINGS_UNLOCK(lock)
    /\ UNCHANGED <<sbp_cb_list, host_cbs>>
    /\ Step(t, [op[t] EXCEPT !.pc = "done"], <<>>)

\* the host thread changes its position
CbStep(rec, reqs, sig) ==
    /\ cb' = rec
    /\ req_list' = reqs
    /\ signalled' = sig
    /\ out' = <<>>
    /\ UNCHANGED <<setting_data_list, type_data_list, crashed, notified,
                   calls_left, op, sbp_cb_list, host_cbs>>

\* the host calls setting_read_resp_callback: request_state_check calls
\* request_state_lookup, which starts with LIBSETTINGS_LOCK
read_resp_arrives(msg) ==
    /\ cb.pc = "idle"
    /\ Registered(host_cbs, SBP_MSG_SETTINGS_READ_RESP)
    /\ UNCHANGED lock
    /\ CbStep([cb EXCEPT !.pc = "lookup",
                         !.msg_id = SBP_MSG_SETTINGS_READ_RESP, !.msg = msg],
              req_list, <<>>)

\* LIBSETTINGS_LOCK on the host thread
LIBSETTINGS_LOCK_cb ==
    /\ cb.pc = "lookup"
    /\ lock = 0
    /\ lock' = CbThread
    /\ CbStep([cb EXCEPT !.pc = "lookup_locked"], req_list, <<>>)

\* request_state_lookup after its LIBSETTINGS_LOCK: the request found is
\* returned as a pointer, here the id of the thread that owns it
request_state_lookup_step ==
    /\ cb.pc = "lookup_locked"
    /\ lock' = LIBSETTINGS_UNLOCK(lock)
    /\ LET i == request_state_lookup(req_list, cb.msg)
       IN  CbStep(IF i = 0 THEN [cb EXCEPT !.pc = "idle", !.msg = <<>>]
                  ELSE [cb EXCEPT !.pc = "found", !.state = req_list[i].owner],
                  req_list, <<>>)

\* what the test of state->pending reads.  A descriptor that its call has
\* unlinked holds FALSE, the call has passed request_state_deinit, as long
\* as the call runs; after the call returned the descriptor is gone and the
\* test reads whatever lies there.
PendingRead(i, gone) ==
    IF i # 0 THEN req_list[i].pending
    ELSE IF op[cb.state].pc \in {"unregister", "unregister_locked"} THEN FALSE
    ELSE gone

\* request_state_check after request_state_lookup returned: the test of
\* state->pending
request_state_check_step(gone) ==
    /\ cb.pc = "found"
    /\ UNCHANGED lock
    /\ PendingRead(ReqOf(req_list, cb.state), gone) = gone
    /\ CbStep(IF gone THEN [cb EXCEPT !.pc = "checked"]
              ELSE [cb EXCEPT !.pc = "idle", !.state = 0, !.msg = <<>>],
              req_list, <<>>)

\* setting_read_resp_callback after request_state_check: the response
\* fields are stored and request_state_signal is called.  stale records a
\* store into a descriptor that is in the list no more.
read_resp_store_step ==
    /\ cb.pc = "checked"
    /\ UNCHANGED lock
    /\ LET i == ReqOf(req_list, cb.state)
       IN  IF i = 0
           THEN CbStep([cb EXCEPT !.pc = "idle", !.state = 0, !.msg = <<>>,
                                  !.stale = TRUE],
                       req_list, <<>>)
           ELSE CbStep([cb EXCEPT !.pc = "idle", !.state = 0, !.msg = <<>>],
                       [req_list EXCEPT ![i] =
                          request_state_signal(
                             read_resp_store(req_list[i],
                                settings_parse(cb.msg, TRUE, TRUE, TRUE, TRUE)),
                             SBP_MSG_SETTINGS_READ_REQ).state],
                       request_state_signal(req_list[i],
                          SBP_MSG_SETTINGS_READ_REQ).signalled)

\* the host calls setting_read_by_index_done_callback: it reads
\* ctx->req_list
read_by_index_done_arrives ==
    /\ cb.pc = "idle"
    /\ Registered(host_cbs, SBP_MSG_SETTINGS_READ_BY_INDEX_DONE)
    /\ req_list # <<>>
    /\ UNCHANGED lock
    /\ CbStep([cb EXCEPT !.pc = "done_walk",
                         !.msg_id = SBP_MSG_SETTINGS_READ_BY_INDEX_DONE,
                         !.state = req_list[1].owner],
              req_list, <<>>)

\* one round of the while loop of setting_read_by_index_done_callback
read_by_index_done_step ==
    /\ cb.pc = "done_walk"
    /\ UNCHANGED lock
    /\ LET i == ReqOf(req_list, cb.state)
       IN  IF i = 0
           THEN CbStep([cb EXCEPT !.pc = "idle", !.state = 0, !.stale = TRUE],
                       req_list, <<>>)
           ELSE CbStep(IF i < Len(req_list)
                       THEN [cb EXCEPT !.state = req_list[i + 1].owner]
                       ELSE [cb EXCEPT !.pc = "idle", !.state = 0],
                       [req_list EXCEPT ![i] =
                          request_state_signal(
                             [req_list[i] EXCEPT !.read_by_idx_done = TRUE],
                             SBP_MSG_SETTINGS_READ_BY_INDEX_REQ).state],
                       request_state_signal(req_list[i],
                          SBP_MSG_SETTINGS_READ_BY_INDEX_REQ).signalled)

InitLock ==
    /\ type_data_list = settings_create_types
    /\ lock = 0
    /\ cb = CbIdle
    /\ setting_data_list = <<>>
    /\ req_list = <<>>
    /\ sbp_cb_list = <<>>
    /\ host_cbs = <<>>
    /\ op = [t \in Threads |-> LockOp]
    /\ calls_left = MaxLockCalls
    /\ crashed = FALSE
    /\ out = <<>>
    /\ notified = <<>>
    /\ signalled = <<>>

NextLock ==
    \/ \E t \in Threads : settings_read_start(t, K1)
    \/ \E t \in Threads : settings_read_by_idx_start(t, 1)
    \/ \E t \in Threads : LIBSETTINGS_LOCK(t)
    \/ \E t \in Threads, hrc \in HostRets : setting_sbp_cb_register_step(t, hrc)
    \/ \E t \in Threads : request_state_append_step(t)
    \/ \E t \in Threads : send_from_step(t)
    \/ \E t \in Threads, rc \in HostRets : wait_step(t, rc)
    \/ \E t \in Threads : request_state_remove_step(t)
    \/ \E t \in Threads, hrc \in HostRets :
          setting_sbp_cb_unregister_step(t, hrc)
    \/ \E t \in Threads : request_state_free_start(t)
    \/ \E t \in Threads : request_state_free_step(t)
    \/ read_resp_arrives(OneBody)
    \/ LIBSETTINGS_LOCK_cb
    \/ request_state_lookup_step
    \/ \E gone \in BOOLEAN : request_state_check_step(gone)
    \/ read_resp_store_step
    \/ read_by_index_done_arrives
    \/ read_by_index_done_step

SpecLock == InitLock /\ [][NextLock]_vars

(***************************************************************************)
(* The request tracker called directly, as the unit test of                *)
(* request_state.c does: descriptors are initialised, appended, removed,   *)
(* signalled and looked up for a payload.                                  *)
(***************************************************************************)
MaxTrackCalls == 4

\* the settings the requests are about: sections and names that are
\* prefixes of one another, and the empty name
TrackKeys ==
    {[section |-> sec, name |-> nam] :
        sec \in {<<97>>, <<97, 98>>}, nam \in {<<>>, <<98>>, <<98, 98>>}}

TrackMsgIds == {SBP_MSG_SETTINGS_WRITE, SBP_MSG_SETTINGS_READ_REQ}

\* payloads about a setting with a value, with no value, and cut short
TrackPayloads ==
    {Header(k) \o v : k \in TrackKeys, v \in {<<>>, <<55, 0>>}}
      \cup {<<97, 0>>, <<97, 0, 98>>}

\* the last call: result is the owner of the request request_state_check
\* returned (0: NULL), rc and calls are what request_state_signal returned
\* and called; loose holds a descriptor that was initialised and not
\* appended
TrackOp ==
    [kind |-> "none", pc |-> "idle", owner |-> 0, msg_id |-> "none",
     msg |-> <<>>, signal_thd |-> FALSE, result |-> 0, rc |-> 0,
     calls |-> <<>>, loose |-> <<>>]

TrackCalled(rec, reqs) ==
    /\ calls_left > 0
    /\ calls_left' = calls_left - 1
    /\ op' = [op EXCEPT ![1] = rec]
    /\ req_list' = reqs
    /\ out' = <<>> /\ notified' = <<>> /\ signalled' = <<>>
    /\ UNCHANGED <<setting_data_list, sbp_cb_list, host_cbs, crashed, locking>>

Linked(list, owner) == \E i \in 1..Len(list) : list[i].owner = owner

\* request_state_init alone: the descriptor is not linked
CallInit(owner, msg_id, h) ==
    /\ ~Linked(req_list, owner)
    /\ op[1].loose = <<>>
    /\ h.n >= 0
    /\ TrackCalled([TrackOp EXCEPT !.kind = "init", !.pc = "done",
                       !.owner = owner, !.msg_id = msg_id,
                       !.loose = <<request_state_init(owner, EventOf(owner),
                                      msg_id, h.buf, h.n)>>],
                   req_list)

\* request_state_init and request_state_append
CallAppend(owner, msg_id, h) ==
    /\ ~Linked(req_list, owner)
    /\ \A i \in 1..Len(op[1].loose) : op[1].loose[i].owner # owner
    /\ h.n >= 0
    /\ TrackCalled([TrackOp EXCEPT !.kind = "append", !.pc = "done",
                       !.owner = owner, !.msg_id = msg_id,
                       !.loose = op[1].loose],
                   request_state_append(req_list,
                      request_state_init(owner, EventOf(owner), msg_id,
                                         h.buf, h.n)))

CallRemove(owner) ==
    /\ Linked(req_list, owner)
    /\ TrackCalled([TrackOp EXCEPT !.kind = "remove", !.pc = "done",
                       !.owner = owner, !.loose = op[1].loose],
                   request_state_remove(req_list, owner))

CallDeinit(owner) ==
    /\ Linked(req_list, owner)
    /\ TrackCalled([TrackOp EXCEPT !.kind = "deinit", !.pc = "done",
                       !.owner = owner, !.loose = op[1].loose],
                   [req_list EXCEPT ![ReqOf(req_list, owner)] =
                       request_state_deinit(@)])

CallCheck(data, i) ==
    TrackCalled([TrackOp EXCEPT !.kind = "check", !.pc = "done",
                    !.msg = data,
                    !.result = IF i = 0 THEN 0 ELSE req_list[i].owner,
                    !.loose = op[1].loose],
                req_list)

CallSignal(owner, msg_id, signal_thd, g) ==
    /\ Linked(req_list, owner)
    /\ TrackCalled([TrackOp EXCEPT !.kind = "signal", !.pc = "done",
                       !.owner = owner, !.msg_id = msg_id,
                       !.signal_thd = signal_thd, !.rc = g.rc,
                       !.calls = g.calls, !.loose = op[1].loose],
                   [req_list EXCEPT ![ReqOf(req_list, owner)] = g.state])

InitTrack ==
    /\ type_data_list = settings_create_types
    /\ lock = 0
    /\ cb = CbIdle
    /\ setting_data_list = <<>>
    /\ req_list = <<>>
    /\ sbp_cb_list = <<>>
    /\ host_cbs = <<>>
    /\ op = [t \in Threads |-> TrackOp]
    /\ calls_left = MaxTrackCalls
    /\ crashed = FALSE
    /\ out = <<>>
    /\ notified = <<>>
    /\ signalled = <<>>

NextTrack ==
    \/ \E owner \in Threads, msg_id \in TrackMsgIds, k \in TrackKeys :
          CallInit(owner, msg_id,
                   message_header_get(k.section, k.name, SBP_PAYLOAD_SIZE_MAX))
    \/ \E owner \in Threads, msg_id \in TrackMsgIds, k \in TrackKeys :
          CallAppend(owner, msg_id,
                     message_header_get(k.section, k.name,
                                        SBP_PAYLOAD_SIZE_MAX))
    \/ \E owner \in Threads : CallRemove(owner)
    \/ \E owner \in Threads : CallDeinit(owner)
    \/ \E data \in TrackPayloads :
          CallCheck(data, request_state_check(req_list, data))
    \/ \E owner \in Threads, msg_id \in TrackMsgIds, signal_thd \in BOOLEAN :
          /\ Linked(req_list, owner)
          /\ CallSignal(owner, msg_id, signal_thd,
                request_state_signal_api(req_list[ReqOf(req_list, owner)],
                                         signal_thd, msg_id))

SpecTrack == InitTrack /\ [][NextTrack]_vars

(***************************************************************************)
(* The send-wait-retry loop called with any retry count, the host's wait   *)
(* returning at every call.                                                *)
(***************************************************************************)
MaxRetries == 3

MaxLoopCalls == 2

\* setting_perform_request_reply_from for a WRITE about K1
CallPerform(retries, src) ==
    /\ CanStart(1)
    /\ calls_left' = calls_left - 1
    /\ UNCHANGED locking
    /\ notified' = <<>> /\ signalled' = <<>>
    /\ UNCHANGED <<setting_data_list, sbp_cb_list, host_cbs, crashed>>
    /\ setting_perform_request_reply_from(1, "perform", K1,
          SBP_MSG_SETTINGS_WRITE, Header(K1) \o <<55, 0>>, Len(Header(K1)),
          retries, <<SBP_SENDER_ID>>, src)

\* the host's wait returns, in time (0) or on its timeout
WaitReturns ==
    \E rc \in HostRets, src \in HostRets :
       setting_perform_request_reply_from_wait(1, rc, src, 0, FALSE)

\* the context after a settings_write: WRITE_RESP is subscribed
InitLoop ==
    /\ type_data_list = settings_create_types
    /\ lock = 0
    /\ cb = CbIdle
    /\ setting_data_list = <<>>
    /\ req_list = <<>>
    /\ sbp_cb_list = <<SBP_MSG_SETTINGS_WRITE_RESP>>
    /\ host_cbs = <<SBP_MSG_SETTINGS_WRITE_RESP>>
    /\ op = [t \in Threads |-> IdleOp]
    /\ calls_left = MaxLoopCalls
    /\ crashed = FALSE
    /\ out = <<>>
    /\ notified = <<>>
    /\ signalled = <<>>

NextLoop ==
    \/ \E retries \in 0..MaxRetries, src \in HostRets :
          CallPerform(retries, src)
    \/ WaitReturns
    \/ \E m \in InWriteResp, nrc \in NotifyRetsOf(setting_data_list) :
          setting_write_resp_callback(m.from, m.msg, nrc)

SpecLoop == InitLoop /\ [][NextLoop]_vars /\ WF_vars(WaitReturns)

(***************************************************************************)
(* Properties.                                                             *)
(***************************************************************************)
\* request i of the list is signaled by the step: marked matched and its
\* waiter woken through its wait object
Signaled(i) ==
    /\ ~req_list[i].match
    /\ req_list'[i].match
    /\ \E k \in 1..Len(signalled') : signalled'[k] = req_list[i].event

\* C1: with any number of requests linked, an inbound message signals a
\* pending request if and only if the message kind corresponds to the
\* request's msg_id and the payload begins with the request's match prefix,
\* also when another listed request with a matching prefix and a different
\* msg_id precedes it; no request whose prefix does not match is signaled.
C1_MatchCorrectness ==
    [][\A b \in SevenBodies, nrc \in NotifyRets :
         /\ setting_register_resp_callback(SBP_SENDER_ID,
                                           <<SETTINGS_REG_OK>> \o b, nrc)
              => \A i \in 1..Len(req_list) :
                    req_list[i].pending =>
                      (Signaled(i) <=>
                         /\ req_list[i].msg_id = SBP_MSG_SETTINGS_REGISTER
                         /\ IsPrefix(req_list[i].compare_data, b))
         /\ setting_write_resp_callback(SBP_SENDER_ID, <<SETTINGS_WR_OK>> \o b, nrc)
              => \A i \in 1..Len(req_list) :
                    req_list[i].pending =>
                      (Signaled(i) <=>
                         /\ req_list[i].msg_id = SBP_MSG_SETTINGS_WRITE
                         /\ IsPrefix(req_list[i].compare_data, b))]_vars

C3_FailedRegisterUnlinks ==
    [][\A t \in Threads :
         (op[t].pc = "wait" /\ op'[t].pc = "done"
            /\ op'[t].kind \in {"register", "readonly"}
            /\ op'[t].result = -1)
           => setting_data_lookup(setting_data_list', op[t].key.section,
                                  op[t].key.name) = 0]_vars

\* C4: for an owned read-write setting with a notify hook, when update_value
\* parses the text and the hook returns a non-zero code, the storage is the
\* same as before the call and update_value returns the hook's code.
C4_NotifyRejectReverts ==
    \A i \in 1..Len(setting_data_list), v \in InTexts, nrc \in NotifyRets :
       LET sd == setting_data_list[i]
           u  == setting_data_update_value(sd, v, nrc)
       IN  (~sd.readonly /\ ~sd.watchonly /\ sd.notify
              /\ from_string(sd, v).ok /\ nrc # 0)
             => (u.sd.var = sd.var /\ u.res = nrc /\ u.notified)

\* the hook of an owned setting has just rejected a written value
C4_Witness ==
    \E i \in 1..Len(setting_data_list) :
       LET sd == setting_data_list[i]
       IN  /\ sd.notify /\ ~sd.readonly /\ ~sd.watchonly
           /\ notified = <<[context |-> sd.notify_context, rc |-> -1]>>
           /\ sd.var = sd.var_copy
           /\ sd.var \in InitVals

\* the WRITE_RESP that answers for entry sd with the given status byte
WriteRespFor(sd, status) ==
    [msg_id  |-> SBP_MSG_SETTINGS_WRITE_RESP,
     payload |-> <<status>> \o Header(sd) \o IntToText(sd.var) \o <<0>>,
     from    |-> NULL]

\* what settings_parse makes of each inbound setting payload
ParsedBody == [b \in InBodies |-> settings_parse(b, TRUE, TRUE, TRUE, TRUE)]

\* the entry a well-formed inbound setting payload addresses, 0 if none
Addressed(msg) ==
    IF ParsedBody[msg].tokens < SETTINGS_TOKENS_VALUE THEN 0
    ELSE setting_data_lookup(setting_data_list, ParsedBody[msg].section,
                             ParsedBody[msg].name)

ValueOf(msg) == ParsedBody[msg].value

\* C5 as stated: any inbound WRITE for an owned read-write setting whose
\* value text the codec rejects yields a WRITE_RESP with status PARSE_FAILED
\* (3), leaves the storage as it was and does not run the notify hook.
C5_Original ==
    [][\A m \in InWrite, nrc \in NotifyRets :
         LET i == Addressed(m.msg)
         IN  (/\ i # 0
              /\ ~setting_data_list[i].readonly
              /\ ~setting_data_list[i].watchonly
              /\ ~from_string(setting_data_list[i], ValueOf(m.msg)).ok
              /\ setting_write_callback(m.from, m.msg, nrc))
               => /\ out' = <<WriteRespFor(setting_data_list[i],
                                           SETTINGS_WR_PARSE_FAILED)>>
                  /\ setting_data_list'[i].var = setting_data_list[i].var
                  /\ notified' = <<>>]_vars

\* C5: an inbound WRITE from the daemon, no longer than the write-length
\* ceiling, for an owned read-write setting whose value text the codec
\* rejects yields a WRITE_RESP with status PARSE_FAILED (3), leaves the
\* storage as it was and does not run the notify hook.
C5_ParseFailure ==
    [][\A m \in InWrite, nrc \in NotifyRets :
         LET i == Addressed(m.msg)
         IN  (/\ m.from = SBP_SENDER_ID
              /\ Len(m.msg) <= MAX_SETTING_WRITE_LEN
              /\ i # 0
              /\ ~setting_data_list[i].readonly
              /\ ~setting_data_list[i].watchonly
              /\ ~from_string(setting_data_list[i], ValueOf(m.msg)).ok
              /\ setting_write_callback(m.from, m.msg, nrc))
               => /\ out' = <<WriteRespFor(setting_data_list[i],
                                           SETTINGS_WR_PARSE_FAILED)>>
                  /\ setting_data_list'[i].var = setting_data_list[i].var
                  /\ notified' = <<>>]_vars

\* a WRITE has just been answered with PARSE_FAILED for an owned setting
C5_Witness ==
    /\ Len(out) = 1
    /\ \E i \in 1..Len(setting_data_list) :
          /\ ~setting_data_list[i].readonly /\ ~setting_data_list[i].watchonly
          /\ out[1] = WriteRespFor(setting_data_list[i], SETTINGS_WR_PARSE_FAILED)
    /\ notified = <<>>

\* the setting payload of a sent WRITE_RESP names entry sd
Names(sent, sd) ==
    /\ sent.msg_id = SBP_MSG_SETTINGS_WRITE_RESP
    /\ IsPrefix(Header(sd), From(sent.payload, 1))

\* C6: whatever is delivered, no WRITE_RESP that has just been sent names a
\* watchonly entry of the settings list, and an inbound WRITE addressed to a
\* watchonly entry changes nothing and sends nothing.
C6_NoWriteRespForWatch ==
    [][/\ \A k \in 1..Len(out'), i \in 1..Len(setting_data_list') :
             setting_data_list'[i].watchonly
               => ~Names(out'[k], setting_data_list'[i])
       /\ \A m \in InWrite, nrc \in NotifyRets :
             LET i == Addressed(m.msg)
             IN  (/\ i # 0
                  /\ setting_data_list[i].watchonly
                  /\ setting_write_callback(m.from, m.msg, nrc))
                   => /\ UNCHANGED <<setting_data_list, req_list>>
                      /\ out' = <<>>
                      /\ notified' = <<>>]_vars

\* C7 as stated: any inbound WRITE from the daemon addressed to a readonly
\* setting leaves the storage unchanged, does not run the notify hook and
\* is answered by exactly one WRITE_RESP with status READ_ONLY (4) echoing
\* section, name and the unchanged value.
C7_Original ==
    [][\A m \in InWrite, nrc \in NotifyRets :
         LET i == Addressed(m.msg)
         IN  (/\ m.from = SBP_SENDER_ID
              /\ i # 0
              /\ setting_data_list[i].readonly
              /\ setting_write_callback(m.from, m.msg, nrc))
               => /\ setting_data_list'[i].var = setting_data_list[i].var
                  /\ notified' = <<>>
                  /\ out' = <<WriteRespFor(setting_data_list[i],
                                           SETTINGS_WR_READ_ONLY)>>]_vars

\* C7: an inbound WRITE from the daemon, no longer than the write-length
\* ceiling, addressed to a readonly setting leaves the storage unchanged,
\* does not run the notify hook and is answered by exactly one WRITE_RESP
\* with status READ_ONLY (4) echoing section, name and the unchanged value.
C7_ReadonlyRefused ==
    [][\A m \in InWrite, nrc \in NotifyRets :
         LET i == Addressed(m.msg)
         IN  (/\ m.from = SBP_SENDER_ID
              /\ Len(m.msg) <= MAX_SETTING_WRITE_LEN
              /\ i # 0
              /\ setting_data_list[i].readonly
              /\ setting_write_callback(m.from, m.msg, nrc))
               => /\ setting_data_list'[i].var = setting_data_list[i].var
                  /\ notified' = <<>>
                  /\ out' = <<WriteRespFor(setting_data_list[i],
                                           SETTINGS_WR_READ_ONLY)>>]_vars

\* a WRITE to a readonly setting has just been answered with READ_ONLY
C7_Witness ==
    /\ Len(out) = 1
    /\ notified = <<>>
    /\ \E i \in 1..Len(setting_data_list) :
          /\ setting_data_list[i].readonly
          /\ setting_data_list[i].var \in InitVals
          /\ out[1] = WriteRespFor(setting_data_list[i], SETTINGS_WR_READ_ONLY)

\* C8: when an inbound WRITE for an owned setting is rejected by a notify
\* hook that returns -1, exactly one WRITE_RESP is sent, its status byte is
\* 1 and its payload echoes section, name and the value from before the
\* write.
C8_NotifyRejectResp ==
    [][\A m \in InWrite :
         LET i == Addressed(m.msg)
         IN  (/\ m.from = SBP_SENDER_ID
              /\ Len(m.msg) <= MAX_SETTING_WRITE_LEN
              /\ i # 0
              /\ ~setting_data_list[i].readonly
              /\ ~setting_data_list[i].watchonly
              /\ setting_data_list[i].notify
              /\ from_string(setting_data_list[i], ValueOf(m.msg)).ok
              /\ setting_write_callback(m.from, m.msg, -1))
               => out' = <<WriteRespFor(setting_data_list[i],
                                        SETTINGS_WR_VALUE_REJECTED)>>]_vars

\* the positions of the entries of list that carry key's section and name
Holding(list, key) ==
    {i \in 1..Len(list) :
        list[i].section = key.section /\ list[i].name = key.name}

\* a register_setting, register_readonly or register_watch call for key
AddCall(key) ==
    \E var \in InitVals, var_len \in VarLens, notify \in BOOLEAN,
       hrc \in HostRets, src \in HostRets :
       \/ settings_register_setting(1, key, var, var_len, notify, hrc, src)
       \/ settings_register_readonly(1, key, var, var_len, hrc, src)
       \/ settings_register_watch(1, key, var, var_len, notify, hrc, src)

\* C9: after any sequence of register_setting, register_readonly and
\* register_watch calls no two entries of the settings list share (section,
\* name), and a call whose (section, name) is already present returns -1
\* and changes nothing: the list is unchanged, no message is sent and no
\* transport callback is subscribed.
C9_NoDuplicates ==
    [][/\ \A key \in Keys : Cardinality(Holding(setting_data_list', key)) <= 1
       /\ \A key \in Keys :
             (Holding(setting_data_list, key) # {} /\ AddCall(key))
               => /\ op'[1].pc = "done"
                  /\ op'[1].result = -1
                  /\ UNCHANGED <<setting_data_list, req_list, sbp_cb_list,
                                 host_cbs>>
                  /\ out' = <<>>]_vars

\* a second call for a (section, name) that was present has returned -1
C9_Witness ==
    /\ calls_left = 0
    /\ op[1].pc = "done"
    /\ op[1].kind \in {"register", "readonly", "watch"}
    /\ op[1].result = -1
    /\ op[1].sends = 0
    /\ Cardinality(Holding(setting_data_list, op[1].key)) = 1
    /\ out = <<>>

\* C10: for register_setting of an owned read-write setting, a REGISTER_RESP
\* from the daemon (status OK, OK_PERM or REGISTERED) that echoes the
\* setting's section and name with a different value and is delivered while
\* the request is pending puts the daemon's value into the storage (the
\* notify hook, if any, accepting it), runs the notify hook once with the
\* registered context and marks the request matched; a further delivery
\* runs no hook and changes nothing; and the call whose request is matched
\* returns 0 when its wait returns.
C10_RegisterOverride ==
    [][/\ \A st \in RegAccepted, b \in SevenBodies, nrc \in NotifyRets :
             LET i == Addressed(b)
                 r == ReqOf(req_list, 1)
             IN  (/\ op[1].kind = "register" /\ op[1].pc = "wait"
                  /\ i # 0 /\ i \in Holding(setting_data_list, op[1].key)
                  /\ setting_register_resp_callback(SBP_SENDER_ID,
                                                    <<st>> \o b, nrc))
                   => IF req_list[r].pending
                      THEN (setting_data_list[i].var \notin WriteVals)
                             => /\ nrc = SETTINGS_WR_OK
                                     => setting_data_list'[i].var \in WriteVals
                                /\ notified' =
                                     IF setting_data_list[i].notify
                                     THEN <<[context |-> ContextOf(op[1].key),
                                             rc |-> nrc]>>
                                     ELSE <<>>
                                /\ request_state_match(req_list'[r])
                      ELSE /\ notified' = <<>>
                           /\ UNCHANGED setting_data_list
       /\ (/\ op[1].kind = "register" /\ op[1].pc = "wait"
           /\ request_state_match(req_list[ReqOf(req_list, 1)])
           /\ setting_perform_request_reply_from_wait(1, 0, 0, 0, FALSE))
            => /\ op'[1].pc = "done"
               /\ op'[1].result = 0]_vars

C15_ForeignSenderIgnored ==
    [][\A nrc \in NotifyRets :
         /\ \A m \in InRegisterResp :
               (m.from # SBP_SENDER_ID
                  /\ setting_register_resp_callback(m.from, m.msg, nrc))
                 => /\ UNCHANGED <<setting_data_list, req_list>>
                    /\ signalled' = <<>> /\ out' = <<>>
         /\ \A m \in InWrite :
               (m.from # SBP_SENDER_ID
                  /\ setting_write_callback(m.from, m.msg, nrc))
                 => /\ UNCHANGED <<setting_data_list, req_list>>
                    /\ signalled' = <<>> /\ out' = <<>>
         /\ \A m \in InWriteResp :
               (m.from # SBP_SENDER_ID
                  /\ setting_write_resp_callback(m.from, m.msg, nrc))
                 => /\ UNCHANGED <<setting_data_list, req_list>>
                    /\ signalled' = <<>> /\ out' = <<>>
         /\ \A m \in InReadResp :
               (m.from # SBP_SENDER_ID
                  /\ setting_read_resp_callback(m.from, m.msg, nrc))
                 => /\ UNCHANGED <<setting_data_list, req_list>>
                    /\ signalled' = <<>> /\ out' = <<>>]_vars

\* the setting payload b fails token parsing: settings_parse rejects it or
\* finds fewer tokens than section, name and value
Malformed(b) == ParsedBody[b].tokens < SETTINGS_TOKENS_VALUE

\* no request is newly marked matched and no waiter is signalled
NoneMatched ==
    /\ Len(req_list') = Len(req_list)
    /\ \A i \in 1..Len(req_list) :
          request_state_match(req_list'[i]) = request_state_match(req_list[i])
    /\ signalled' = <<>>

\* C16: a message whose setting payload fails token parsing is dropped by
\* the handler it is delivered to: the settings list stays as it is, no
\* request is marked matched and no waiter is signalled, also when the
\* payload starts with the match prefix of a pending request.
C16_MalformedDropped ==
    [][\A b \in InBodies, nrc \in NotifyRets :
         Malformed(b) =>
           /\ \A st \in RegAccepted :
                 setting_register_resp_callback(SBP_SENDER_ID, <<st>> \o b, nrc)
                   => UNCHANGED setting_data_list /\ NoneMatched
           /\ setting_write_callback(SBP_SENDER_ID, b, nrc)
                => UNCHANGED setting_data_list /\ NoneMatched
           /\ setting_write_resp_callback(SBP_SENDER_ID,
                                          <<SETTINGS_WR_OK>> \o b, nrc)
                => UNCHANGED setting_data_list /\ NoneMatched
           /\ setting_read_resp_callback(SBP_SENDER_ID, b, nrc)
                => UNCHANGED setting_data_list /\ NoneMatched]_vars

\* the call of thread 1 has returned -1 and has sent nothing
Aborted ==
    /\ op'[1].pc = "done"
    /\ op'[1].result = -1
    /\ out' = <<>>

\* C17: when the host's register_cb fails while register_setting,
\* register_watch or settings_write subscribes, the call returns -1 without
\* sending its request, and register_setting and register_watch leave no
\* entry for the setting in the settings list.
C17_SubscribeFailureAborts ==
    [][\A key \in Keys, v \in InitVals \cup WriteVals, var_len \in VarLens,
          notify \in BOOLEAN, src \in HostRets :
         sbp_cb_list = <<>> =>
           /\ settings_register_setting(1, key, v, var_len, notify, -1, src)
                => /\ Aborted
                   /\ setting_data_lookup(setting_data_list', key.section,
                                          key.name) = 0
           /\ settings_register_watch(1, key, v, var_len, notify, -1, src)
                => /\ Aborted
                   /\ setting_data_lookup(setting_data_list', key.section,
                                          key.name) = 0
           /\ settings_write(1, key, v, var_len, -1, src) => Aborted]_vars

\* C18: a WRITE_RESP with status OK whose section and name are those of a
\* watchonly entry, and whose value text the codec accepts, sets the entry's
\* storage to that value and runs the notify hook, if any, whose result is
\* ignored; a WRITE_RESP with another status changes no storage; and no
\* WRITE_RESP changes the storage of an owned entry that is neither
\* readonly nor watchonly.
C18_WriteRespWatch ==
    [][\A m \in InWriteResp, nrc \in NotifyRets :
         setting_write_resp_callback(m.from, m.msg, nrc) =>
           LET i == Addressed(From(m.msg, 1))
           IN  /\ Len(setting_data_list') = Len(setting_data_list)
               /\ (/\ m.msg[1] = SETTINGS_WR_OK
                   /\ i # 0
                   /\ setting_data_list[i].watchonly
                   /\ from_string(setting_data_list[i],
                                  ValueOf(From(m.msg, 1))).ok)
                    => /\ setting_data_list'[i].var =
                            from_string(setting_data_list[i],
                                        ValueOf(From(m.msg, 1))).blob
                       /\ notified' =
                            IF setting_data_list[i].notify
                            THEN <<[context |->
                                      setting_data_list[i].notify_context,
                                    rc |-> nrc]>>
                            ELSE <<>>
               /\ m.msg[1] # SETTINGS_WR_OK
                    => \A k \in 1..Len(setting_data_list) :
                          setting_data_list'[k].var = setting_data_list[k].var
               /\ \A k \in 1..Len(setting_data_list) :
                     (~setting_data_list[k].readonly
                        /\ ~setting_data_list[k].watchonly)
                       => setting_data_list'[k].var = setting_data_list[k].var]_vars

\* C19: while and after settings_register_readonly runs, the storage of
\* its entry holds the caller's initial value whatever is delivered; a
\* REGISTER_RESP accepted for the pending request leaves the settings list
\* as it is, marks the request matched and signals the caller; and the call
\* whose request is matched returns 0 when its wait returns.
C19_ReadonlyKeepsValue ==
    [][LET r == ReqOf(req_list, 1)
       IN  /\ op'[1].kind = "readonly"
                => \A i \in Holding(setting_data_list', op'[1].key) :
                      setting_data_list'[i].var \in InitVals
           /\ \A m \in InRegisterResp, nrc \in NotifyRets :
                (/\ op[1].kind = "readonly" /\ op[1].pc = "wait"
                 /\ setting_register_resp_callback(m.from, m.msg, nrc))
                  => /\ UNCHANGED setting_data_list
                     /\ (/\ m.from = SBP_SENDER_ID
                         /\ m.msg[1] \in RegAccepted
                         /\ req_list[r].pending
                         /\ IsPrefix(Header(op[1].key), From(m.msg, 1)))
                          => /\ request_state_match(req_list'[r])
                             /\ signalled' = <<EventOf(1)>>
           /\ (/\ op[1].kind = "readonly" /\ op[1].pc = "wait"
               /\ request_state_match(req_list[r])
               /\ setting_perform_request_reply_from_wait(1, 0, 0, 0, FALSE))
                => /\ op'[1].pc = "done"
                   /\ op'[1].result = 0]_vars

\* a readonly registration has returned 0 after its REGISTER_RESP, all of
\* which carry another value than the caller's, and the storage holds the
\* caller's value
C19_Witness ==
    /\ op[1].kind = "readonly" /\ op[1].pc = "done"
    /\ op[1].success /\ op[1].result = 0
    /\ \E i \in Holding(setting_data_list, op[1].key) :
          setting_data_list[i].readonly /\ setting_data_list[i].var \in InitVals

\* C20: a REGISTER_RESP with status PARSE_FAILED (3) changes nothing: the
\* request list and the settings list stay as they are, no waiter is
\* signalled and nothing is sent; and when the wait of a register call whose
\* request is unmatched returns with tries remaining, the REGISTER payload
\* is sent again.
C20_ParseFailedRedriven ==
    [][/\ \A m \in InRegisterResp, nrc \in NotifyRets :
            (/\ m.msg[1] = SETTINGS_REG_PARSE_FAILED
             /\ setting_register_resp_callback(m.from, m.msg, nrc))
              => /\ UNCHANGED <<setting_data_list, req_list>>
                 /\ signalled' = <<>> /\ notified' = <<>> /\ out' = <<>>
       /\ \A rc \in HostRets, src \in HostRets :
            (/\ op[1].kind \in {"register", "readonly"} /\ op[1].pc = "wait"
             /\ ~request_state_match(req_list[ReqOf(req_list, 1)])
             /\ op[1].tries + 1 < REGISTER_TRIES
             /\ setting_perform_request_reply_from_wait(1, rc, src, 0, FALSE))
              => /\ op'[1].pc = "wait"
                 /\ op'[1].sends = op[1].sends + 1
                 /\ out' = <<[msg_id  |-> SBP_MSG_SETTINGS_REGISTER,
                              payload |-> op[1].msg,
                              from    |-> <<sender_id>>]>>]_vars

\* a register call has sent its request again and a delivery after that has
\* left the request pending and unmatched
C20_Witness ==
    /\ op[1].kind = "register" /\ op[1].pc = "wait"
    /\ op[1].sends >= 2
    /\ out = <<>> /\ signalled = <<>>
    /\ req_list[ReqOf(req_list, 1)].pending
    /\ ~request_state_match(req_list[ReqOf(req_list, 1)])

\* the nodes of a callback list that hold msg_id
NodesOf(list, msg_id) == {i \in 1..Len(list) : list[i] = msg_id}

\* C13: setting_sbp_cb_register(id) returns 0 when id is not registered and
\* the host accepts the callback, and then the host's register_cb has been
\* called once for id; it returns 1 and calls nothing when id is registered;
\* setting_sbp_cb_unregister(id) returns 0 for a registered id and removes
\* its node and the host's callback, and returns 1 and changes nothing when
\* id is not registered; whatever the calls, the list never holds two nodes
\* for one message id.
C13_Multiplexer ==
    [][\A msg_id \in MsgIds :
         /\ Cardinality(NodesOf(sbp_cb_list', msg_id)) <= 1
         /\ CallRegister(msg_id, 0) =>
              IF Registered(sbp_cb_list, msg_id)
              THEN /\ op'[1].result = 1
                   /\ UNCHANGED <<sbp_cb_list, host_cbs>>
              ELSE /\ op'[1].result = 0
                   /\ sbp_cb_list' = Append(sbp_cb_list, msg_id)
                   /\ host_cbs' = Append(host_cbs, msg_id)
         /\ \A hrc \in HostRets :
              (Registered(sbp_cb_list, msg_id) /\ CallRegister(msg_id, hrc))
                => /\ op'[1].result = 1
                   /\ UNCHANGED <<sbp_cb_list, host_cbs>>
         /\ CallUnregister(msg_id, 0) =>
              IF Registered(sbp_cb_list, msg_id)
              THEN /\ op'[1].result = 0
                   /\ ~Registered(sbp_cb_list', msg_id)
                   /\ Len(sbp_cb_list') = Len(sbp_cb_list) - 1
                   /\ Len(host_cbs') = Len(host_cbs) - 1
                   /\ \A other \in MsgIds \ {msg_id} :
                         Registered(sbp_cb_list', other)
                           = Registered(sbp_cb_list, other)
              ELSE /\ op'[1].result = 1
                   /\ UNCHANGED <<sbp_cb_list, host_cbs>>
         /\ \A hrc \in HostRets :
              (~Registered(sbp_cb_list, msg_id) /\ CallUnregister(msg_id, hrc))
                => /\ op'[1].result = 1
                   /\ UNCHANGED <<sbp_cb_list, host_cbs>>]_vars

\* a second setting_sbp_cb_register for an id has returned 1 while another
\* id is registered, too; the host holds one callback for each
C13_Witness ==
    /\ op[1].kind = "cb_register" /\ op[1].result = 1
    /\ Len(sbp_cb_list) = 2
    /\ Registered(sbp_cb_list, op[1].msg_id)
    /\ host_cbs = sbp_cb_list

\* the strings of a request's response fields
RespOf(state) ==
    <<state.resp_section, state.resp_name, state.resp_value, state.resp_type>>

\* thread t waits in settings_read_by_idx and its request is in the list
Enumerating(t) ==
    /\ op[t].kind = "read_by_idx" /\ op[t].pc = "wait"
    /\ ReqOf(req_list, t) # 0

\* C12: settings_read_by_idx(idx) sends the two bytes of idx, low byte
\* first, and matches replies on them; a READ_BY_INDEX_RESP that starts with
\* them and is matched to the pending request leaves the section, name,
\* value and type of the reply in it, and the call returns 0 and hands them
\* out; a READ_BY_INDEX_DONE that arrives while the request is pending makes
\* the call return 1; what arrives after the request was matched does not
\* change what the call returns; and the call returns -1 when the retry
\* budget ends with the request unmatched.
C12_ReadByIndex ==
    [][\A t \in Threads :
         LET r == ReqOf(req_list, t)
         IN  /\ \A idx \in Idxs, hrc \in HostRets :
                  (settings_read_by_idx(t, idx, hrc, 0) /\ op'[t].pc = "wait")
                    => /\ out' = <<[msg_id  |-> SBP_MSG_SETTINGS_READ_BY_INDEX_REQ,
                                    payload |-> <<idx % 256, idx \div 256>>,
                                    from    |-> <<SBP_SENDER_ID>>]>>
                       /\ req_list'[ReqOf(req_list', t)].compare_data
                            = <<idx % 256, idx \div 256>>
             /\ \A idx \in Idxs :
                  (/\ Enumerating(t) /\ req_list[r].pending
                   /\ request_state_check(req_list, IdxBytes(idx)) = r
                   /\ setting_read_by_index_resp_callback(SBP_SENDER_ID,
                         IdxBytes(idx) \o TypedBody(48)))
                    => /\ op[t].msg = <<idx % 256, idx \div 256>>
                       /\ request_state_match(req_list'[r])
                       /\ ~req_list'[r].read_by_idx_done
                       /\ RespOf(req_list'[r])
                            = <<K1.section, K1.name, <<55>>, <<48>>>>
             /\ (/\ Enumerating(t) /\ req_list[r].pending
                 /\ setting_read_by_index_done_callback(SBP_SENDER_ID, <<>>))
                  => /\ request_state_match(req_list'[r])
                     /\ req_list'[r].read_by_idx_done
             /\ (/\ Enumerating(t) /\ request_state_match(req_list[r])
                 /\ op'[t].pc = "wait")
                  => /\ req_list'[r].read_by_idx_done
                          = req_list[r].read_by_idx_done
                     /\ RespOf(req_list'[r]) = RespOf(req_list[r])
             /\ \A hrc \in HostRets :
                  (/\ Enumerating(t)
                   /\ setting_perform_request_reply_from_wait(t, 0, 0, hrc, FALSE)
                   /\ op'[t].pc = "done")
                    => IF request_state_match(req_list[r])
                       THEN /\ op'[t].result
                                 = IF req_list[r].read_by_idx_done THEN 1 ELSE 0
                            /\ op'[t].resp = RespOf(req_list[r])
                       ELSE op'[t].result = -1]_vars

\* the reply message ids a call of the given kind subscribes to
RepliesOf(kind) ==
    CASE kind = "read" -> {SBP_MSG_SETTINGS_READ_RESP}
      [] kind = "read_by_idx" -> {SBP_MSG_SETTINGS_READ_BY_INDEX_RESP,
                                  SBP_MSG_SETTINGS_READ_BY_INDEX_DONE}
      [] OTHER -> {}

\* C14: the host never holds two callbacks for one message id, and while a
\* read call waits for its reply the host holds the callback for every
\* reply message id the call subscribed to, also after another call that
\* used the same id has finished and unsubscribed.
C14_CallbackKept ==
    /\ \A msg_id \in MsgIds : Cardinality(NodesOf(host_cbs, msg_id)) <= 1
    /\ \A t \in Threads :
          op[t].pc = "wait"
            => \A msg_id \in RepliesOf(op[t].kind) :
                  Registered(host_cbs, msg_id)

\* C25: settings_parse called with a buffer length of 0 returns
\* SETTINGS_TOKENS_EMPTY (0) and sets every non-null output slot to NULL.
C25_ParseEmpty ==
    (op[1].kind = "parse" /\ op[1].blen = 0)
      => /\ op[1].result = SETTINGS_TOKENS_EMPTY
         /\ \A i \in 1..4 : op[1].slots[i] = NULL

\* C26: for every payload buffer, the token count returned by
\* settings_parse is the same whichever subset of the four output slots the
\* caller passes as NULL: it is the count returned when all four slots are
\* passed; in particular a well-formed four-token payload with a non-empty
\* type token yields SETTINGS_TOKENS_TYPE also when the type slot is NULL.
C26_SlotsDoNotChangeCount ==
    op[1].kind = "parse"
      => op[1].result = settings_parse(op[1].buf, TRUE, TRUE, TRUE, TRUE).tokens

\* the NUL-terminated tokens of a buffer that ends in NUL, in order
RECURSIVE TokensOf(_)
TokensOf(buf) ==
    IF buf = <<>> THEN <<>>
    ELSE LET n == CHOOSE i \in 1..Len(buf) :
                      buf[i] = 0 /\ \A j \in 1..(i - 1) : buf[j] # 0
         IN  <<SubSeq(buf, 1, n - 1)>> \o TokensOf(SubSeq(buf, n + 1, Len(buf)))

AllWanted == \A i \in 1..4 : op[1].want[i]

\* C27: for a non-empty buffer with all four output slots requested,
\* settings_parse returns INVALID with all slots NULL when the last byte is
\* not NUL; otherwise, with k the number of NUL bytes, it returns k for
\* 1 <= k <= 4 with the first k slots pointing at the k tokens and the
\* remaining slots NULL, returns 5 when k = 5 and the fifth token is empty,
\* and returns INVALID when k >= 6 or when k = 5 with a non-empty fifth
\* token.
C27_ParseCount ==
    (op[1].kind = "parse" /\ op[1].blen > 0 /\ AllWanted)
      => IF op[1].buf[op[1].blen] # 0
         THEN /\ op[1].result = SETTINGS_TOKENS_INVALID
              /\ \A i \in 1..4 : op[1].slots[i] = NULL
         ELSE LET toks == TokensOf(op[1].buf)
                  k    == Len(toks)
              IN  /\ k \in 1..4
                     => /\ op[1].result = k
                        /\ \A i \in 1..4 :
                              op[1].slots[i] = IF i <= k THEN toks[i] ELSE NULL
                  /\ (k = 5 /\ toks[5] = <<>>)
                     => op[1].result = SETTINGS_TOKENS_TYPE_CUSTOM
                  /\ (k >= 6 \/ (k = 5 /\ toks[5] # <<>>))
                     => op[1].result = SETTINGS_TOKENS_INVALID

\* settings_parse has returned for "a\0a\0a\0a\0" with all slots passed, for
\* a buffer of five tokens and for one of six
C27_Witness ==
    /\ op[1].kind = "parse" /\ AllWanted
    /\ \/ /\ op[1].buf = <<97, 0, 97, 0, 97, 0, 97, 0>>
          /\ op[1].result = SETTINGS_TOKENS_TYPE
          /\ op[1].slots = <<<<97>>, <<97>>, <<97>>, <<97>>>>
       \/ /\ op[1].buf = <<0, 0, 0, 0, 0, 0>>
          /\ op[1].result = SETTINGS_TOKENS_INVALID

\* the number of leading strings of the arguments of settings_format, when
\* the arguments after them are all NULL; 0 otherwise
LeadingTokens(tokens) ==
    IF \E k \in 1..4 : \A i \in 1..4 : (tokens[i] # NULL) <=> (i <= k)
    THEN CHOOSE k \in 1..4 : \A i \in 1..4 : (tokens[i] # NULL) <=> (i <= k)
    ELSE 0

RECURSIVE SumLen(_, _)
SumLen(tokens, k) == IF k = 0 THEN 0 ELSE SumLen(tokens, k - 1) + Len(tokens[k])

\* C28: for any k in 1..4 and NUL-free strings t1..tk passed to
\* settings_format as the first k tokens (the rest NULL) that fit the
\* buffer, settings_format returns the sum of the token lengths plus k, and
\* settings_parse on the produced bytes returns token count k with output
\* strings equal to t1..tk; when the tokens do not fit, settings_format
\* returns -1.
C28_FormatParse ==
    (op[1].kind \in {"format", "parse_formatted"} /\ LeadingTokens(op[1].tokens) > 0)
      => LET k == LeadingTokens(op[1].tokens)
             n == SumLen(op[1].tokens, k) + k
         IN  /\ op[1].kind = "format"
                => op[1].result = IF n <= op[1].blen THEN n ELSE -1
             /\ (op[1].kind = "parse_formatted" /\ AllWanted)
                => /\ op[1].result = k
                   /\ Len(op[1].buf) = n
                   /\ \A i \in 1..k : op[1].slots[i] = op[1].tokens[i]

\* "a", "ab", "", "a" have been formatted into 8 bytes and parsed back
C28_Witness ==
    /\ op[1].kind = "parse_formatted" /\ AllWanted
    /\ op[1].tokens = <<<<97>>, <<97, 98>>, <<>>, <<97>>>>
    /\ op[1].result = SETTINGS_TOKENS_TYPE
    /\ op[1].slots = op[1].tokens

\* the numbers a signed integer of w bytes can hold
IntRange(w) ==
    IF w = 4 THEN (-2147483647 - 1)..2147483647
    ELSE (-(2 ^ (8 * w - 1)))..(2 ^ (8 * w - 1) - 1)

\* C29: the int codec's from_text for storage of width w in {1, 2, 4} bytes
\* succeeds only for decimal text whose value is representable as a signed
\* w-byte integer, and on success the w stored bytes equal exactly that
\* value: "200" for 1-byte storage is rejected instead of being stored
\* modulo 2^8.
C29_IntFromString ==
    (op[1].kind = "int_from_string" /\ op[1].blen \in {1, 2, 4} /\ op[1].ok)
      => \E v \in IntVals :
            /\ op[1].buf = IntToText(v)
            /\ v \in IntRange(op[1].blen)
            /\ op[1].blob = v

\* thread t waits in settings_read and its request has been matched
ReadMatched(t) ==
    /\ op[t].kind = "read" /\ op[t].pc = "wait"
    /\ ReqOf(req_list, t) # 0
    /\ request_state_match(req_list[ReqOf(req_list, t)])

\* is str a decimal number: one or more digits
IsDecimal(str) == str # <<>> /\ \A i \in 1..Len(str) : IsDigit(str[i])

\* C23: in settings_read, once a READ_RESP is matched: if the response's
\* type token starts with "enum:" the caller's expected type is used for
\* decoding whatever type id the caller passed; if the type token is a
\* decimal number it must equal the caller's type id, otherwise the call
\* returns -1 and the caller's value buffer is not written.
C23_ReadTypeCheck ==
    [][\A t \in Threads, hrc \in HostRets :
         (/\ ReadMatched(t)
          /\ setting_perform_request_reply_from_wait(t, 0, 0, hrc, FALSE)
          /\ op'[t].pc = "done")
           => LET state == req_list[ReqOf(req_list, t)]
                  conv  == int_from_string(op[t].var, ReadLen, state.resp_value)
              IN  /\ IsPrefix(EnumTag, state.resp_type)
                     => /\ op'[t].result = IF conv.ok THEN 0 ELSE -1
                        /\ op'[t].var = conv.blob
                  /\ IsDecimal(state.resp_type)
                     => IF DecVal(state.resp_type, Len(state.resp_type))
                             = SETTINGS_TYPE_INT
                        THEN /\ op'[t].result = IF conv.ok THEN 0 ELSE -1
                             /\ op'[t].var = conv.blob
                        ELSE /\ op'[t].result = -1
                             /\ op'[t].var = op[t].var]_vars

\* thread 1 waits in settings_register_watch for the reply to its READ_REQ,
\* its request still pending
WatchPending ==
    /\ op[1].kind = "watch" /\ op[1].pc = "wait"
    /\ ReqOf(req_list, 1) # 0
    /\ req_list[ReqOf(req_list, 1)].pending

\* no message of the sequence sent is a WRITE_RESP
NoWriteResp(sent) ==
    \A k \in 1..Len(sent) : sent[k].msg_id # SBP_MSG_SETTINGS_WRITE_RESP

\* C21: register_watch sends READ_REQ with payload section\0name\0; when a
\* READ_RESP with that prefix and a value token is matched within the retry
\* budget, the watched storage is set to that value, the call returns 0 and
\* the library sends no WRITE_RESP; when the matched reply carries no value
\* token, the storage is left unchanged and the watchonly entry stays in the
\* list.
C21_WatchInitialRead ==
    [][/\ \A key \in Keys, var \in InitVals, var_len \in VarLens,
             notify \in BOOLEAN, src \in HostRets :
             settings_register_watch(1, key, var, var_len, notify, 0, src)
               => /\ out' = <<[msg_id  |-> SBP_MSG_SETTINGS_READ_REQ,
                               payload |-> key.section \o <<0>> \o key.name
                                             \o <<0>>,
                               from    |-> <<SBP_SENDER_ID>>]>>
                  /\ req_list'[ReqOf(req_list', 1)].compare_data = out'[1].payload
       /\ \A b \in InBodies, nrc \in NotifyRets :
             (/\ WatchPending
              /\ IsPrefix(op[1].msg, b)
              /\ setting_read_resp_callback(SBP_SENDER_ID, b, nrc))
               => LET i == setting_data_lookup(setting_data_list,
                                               op[1].key.section,
                                               op[1].key.name)
                  IN  /\ request_state_match(req_list'[ReqOf(req_list, 1)])
                      /\ NoWriteResp(out')
                      /\ Len(setting_data_list') = Len(setting_data_list)
                      /\ setting_data_list'[i].watchonly
                      /\ IF b \in {op[1].msg \o <<55, 0>>, op[1].msg \o LongSeven \o <<0>>}
                         THEN setting_data_list'[i].var = 7
                         ELSE setting_data_list'[i].var = setting_data_list[i].var
       /\ \A rc \in HostRets, src \in HostRets, hrc \in HostRets :
             (/\ op[1].kind = "watch" /\ op[1].pc = "wait"
              /\ setting_perform_request_reply_from_wait(1, rc, src, hrc, FALSE)
              /\ op'[1].pc = "done")
               => /\ request_state_match(req_list[ReqOf(req_list, 1)]) /\ rc = 0
                     => op'[1].result = 0
                  /\ NoWriteResp(out')
                  /\ setting_data_list' = setting_data_list]_vars

\* settings_register_watch("a", "b") has returned 0 after READ_RESP
\* "a\0b\07\0" was matched: the watched storage holds 7
C21_Witness ==
    /\ op[1].kind = "watch" /\ op[1].pc = "done" /\ op[1].result = 0
    /\ op[1].success
    /\ Len(setting_data_list) = 1
    /\ setting_data_list[1].watchonly
    /\ setting_data_list[1].var = 7
    /\ setting_data_list[1].var_copy = 5

\* C24: after settings_create and n successful settings_register_enum calls
\* the k-th registration returned id k-1 (int 0, float 1, string 2, bool 3,
\* the enums 4..3+n), type_data_lookup(i) finds the codec registered under i
\* for every 0 <= i < 4+n and that codec never changes, and registering a
\* setting under a type id outside 0..3+n, negative ids included, fails
\* without creating an entry
StandardTypes(data_list) ==
    /\ Len(data_list) >= 4
    /\ data_list[SETTINGS_TYPE_INT + 1].to_string = "int_to_string"
    /\ data_list[2].to_string = "float_to_string"
    /\ data_list[SETTINGS_TYPE_STRING + 1].to_string = "str_to_string"
    /\ data_list[4].to_string = "enum_to_string"
    /\ data_list[4].priv = bool_enum_names

TypeIdsStable ==
    /\ StandardTypes(type_data_list')
    /\ \A i \in 0..(Len(type_data_list) - 1) :
          /\ type_data_lookup(type_data_list', i) = i + 1
          /\ type_data_list'[i + 1] = type_data_list[i + 1]
    /\ \A enum_names \in EnumNames :
          settings_register_enum(1, enum_names, TRUE)
            => /\ op'[1].result = 0
               /\ op'[1].var = Len(type_data_list)
               /\ op'[1].var >= 4
               /\ type_data_lookup(type_data_list', op'[1].var)
                    = Len(type_data_list')
               /\ type_data_list'[Len(type_data_list')].priv = enum_names

OutsideTypeFails ==
    \A key \in Keys, var \in InitVals, type \in TypeIds,
       hrc \in HostRets, src \in HostRets :
       (/\ type \notin 0..(Len(type_data_list) - 1)
        /\ settings_add_setting_type(1, "register", key, var, 4, type,
                                     FALSE, FALSE, FALSE, hrc, src))
         => /\ op'[1].pc = "done" /\ op'[1].result = -1
            /\ setting_data_list' = setting_data_list

C24_TypeIds == [][TypeIdsStable /\ OutsideTypeFails]_vars

\* C22: a thread blocked in wait or wait_thd inside the send-wait-retry
\* loop does not hold the context lock, and every path that takes the lock
\* (request_state_append, _remove, _lookup, _free, setting_sbp_cb_register,
\* setting_sbp_cb_unregister) gives it back before it returns, so that a
\* handler on another thread can always get the lock: whoever holds it is
\* inside one of these sections and can leave it
LeaveSection(t) ==
    \/ \E hrc \in HostRets : setting_sbp_cb_register_step(t, hrc)
    \/ request_state_append_step(t)
    \/ request_state_remove_step(t)
    \/ \E hrc \in HostRets : setting_sbp_cb_unregister_step(t, hrc)
    \/ request_state_free_step(t)

C22_LockReleased ==
    /\ \A t \in Threads :
          /\ op[t].pc = "wait" => lock # t
          /\ lock = t => op[t].pc \in LockedPcs /\ ENABLED LeaveSection(t)
    /\ lock = CbThread
         => cb.pc = "lookup_locked" /\ ENABLED request_state_lookup_step

\* a handler holds the lock while a call is blocked in its wait, and a
\* request is linked
C22_Witness ==
    /\ lock = CbThread
    /\ \E t \in Threads : op[t].pc = "wait" /\ ReqOf(req_list, t) # 0

\* C30: in multi-threaded mode a handler never stores response fields into,
\* sets match on, or signals a request after its call has unlinked it:
\* finding the request, changing it and signalling it happen under one hold
\* of the context lock, and every walk of the request list by a handler,
\* that of READ_BY_INDEX_DONE included, happens under the lock
NoStaleStore == ~cb.stale

UnderLock == cb.pc \in {"found", "checked", "done_walk"} => lock = CbThread

C30_HandlerAtomic == NoStaleStore /\ UnderLock

(***************************************************************************)
(* Properties of the tracker called directly (SpecTrack).                  *)
(***************************************************************************)
TrackDid(kind) == op[1].kind = kind /\ calls_left < MaxTrackCalls

\* what the claim says of a request_state_signal call on the request
\* before, the request after, and the call's record
SignalAsClaimed(before, after, rec) ==
    IF rec.msg_id # before.msg_id
    THEN /\ rec.rc = -1
         /\ after.match = before.match
         /\ after.pending = before.pending
         /\ rec.calls = <<>>
    ELSE /\ rec.rc = 0
         /\ after.match
         /\ ~after.pending
         /\ rec.calls = IF before.event # NULL /\ rec.signal_thd
                        THEN <<[fn |-> "signal_thd", arg |-> before.event]>>
                        ELSE <<[fn |-> "signal", arg |-> NULL]>>

SignalStep ==
    /\ calls_left' < calls_left
    /\ op'[1].kind = "signal"
    /\ Len(req_list') = Len(req_list)

\* C36: request_state_signal with a msg_id other than the request's
\* returns -1, leaves matched and pending as they are and calls no host
\* function; with the request's msg_id it sets matched, clears pending,
\* returns 0 and calls exactly one host function: signal_thd(event) when
\* the request carries an event and the host supplies signal_thd, else
\* signal(host context).  No other request changes.
C36_Signal ==
    [][SignalStep =>
         \A i \in 1..Len(req_list) :
            IF req_list[i].owner = op'[1].owner
            THEN SignalAsClaimed(req_list[i], req_list'[i], op'[1])
            ELSE req_list'[i] = req_list[i]]_vars

\* a request with an event was signalled through signal_thd, after a call
\* with a foreign msg_id had returned -1 on another request
C36_Witness ==
    /\ TrackDid("signal")
    /\ op[1].rc = 0
    /\ op[1].calls = <<[fn |-> "signal_thd", arg |-> EventOf(2)]>>
    /\ \E i \in 1..Len(req_list) : req_list[i].owner = 2 /\ req_list[i].match

\* the linked requests whose prefix starts the payload
Matching(list, data) ==
    {i \in 1..Len(list) :
        /\ Len(list[i].compare_data) <= Len(data)
        /\ SubSeq(data, 1, Len(list[i].compare_data)) = list[i].compare_data}

Earliest(hit) == CHOOSE i \in hit : \A j \in hit : i <= j

CheckStep == calls_left' < calls_left /\ op'[1].kind = "check"

\* C37: request_state_check returns the earliest-appended linked request
\* whose prefix is no longer than the payload and equals its leading
\* bytes, provided that request is pending; it returns NULL when no linked
\* request matches (a descriptor initialised and never appended, a payload
\* shorter than the prefix) and when the first matching request is not
\* pending.
C37_Check ==
    [][CheckStep =>
         op'[1].result =
            IF Matching(req_list, op'[1].msg) = {} THEN 0
            ELSE IF ~req_list[Earliest(Matching(req_list, op'[1].msg))].pending
                 THEN 0
                 ELSE req_list[Earliest(Matching(req_list,
                                                 op'[1].msg))].owner]_vars

\* the check returned the earlier of two linked requests that both match
C37_Witness ==
    /\ TrackDid("check")
    /\ Len(req_list) = 2
    /\ Matching(req_list, op[1].msg) = {1, 2}
    /\ op[1].result = req_list[1].owner

\* the check returned NULL for a payload that only a descriptor never
\* appended matches
C37_WitnessLoose ==
    /\ TrackDid("check")
    /\ op[1].result = 0
    /\ req_list # <<>>
    /\ Len(op[1].loose) = 1
    /\ IsPrefix(op[1].loose[1].compare_data, op[1].msg)

\* C31: whenever the list holds a pending request whose prefix starts the
\* payload, request_state_check returns a pending request for it; a
\* matched request still linked ahead of it does not hide it.
C31_PendingFound ==
    [][CheckStep =>
         ((\E i \in Matching(req_list, op'[1].msg) : req_list[i].pending)
            => \E i \in Matching(req_list, op'[1].msg) :
                  /\ req_list[i].pending
                  /\ op'[1].result = req_list[i].owner)]_vars

\* the setting a prefix or a payload is about
AboutKey(data, k) ==
    IsPrefix(message_header_get(k.section, k.name, SBP_PAYLOAD_SIZE_MAX).buf,
             data)

\* the prefix a request about k carries
PrefixOf(k) ==
    SubSeq(message_header_get(k.section, k.name, SBP_PAYLOAD_SIZE_MAX).buf, 1,
           message_header_get(k.section, k.name, SBP_PAYLOAD_SIZE_MAX).n)

\* C40: the prefix section\0name\0 of a request about one setting never
\* starts a payload that starts with another setting's section\0name\0,
\* also when one name or section is a string prefix of the other; a
\* request is never returned for a payload about a different setting.
C40_PrefixFree ==
    /\ \A i \in 1..Len(req_list) :
          /\ \E k \in TrackKeys : req_list[i].compare_data = PrefixOf(k)
          /\ \A k1 \in TrackKeys, k2 \in TrackKeys, v \in {<<>>, <<55, 0>>} :
                (req_list[i].compare_data = PrefixOf(k1) /\ k1 # k2)
                   => ~IsPrefix(req_list[i].compare_data, Header(k2) \o v)
    /\ TrackDid("check") /\ op[1].result # 0
          => \A k1 \in TrackKeys, k2 \in TrackKeys :
                (/\ AboutKey(op[1].msg, k2)
                 /\ \E i \in 1..Len(req_list) :
                       /\ req_list[i].owner = op[1].result
                       /\ req_list[i].compare_data = PrefixOf(k1))
                   => k1 = k2

\* a request about section "a", name "bb" was found for its payload while
\* a request about "a", "b" was linked ahead of it
C40_Witness ==
    /\ TrackDid("check")
    /\ Len(req_list) = 2
    /\ req_list[1].compare_data = <<97, 0, 98, 0>>
    /\ req_list[2].compare_data = <<97, 0, 98, 98, 0>>
    /\ op[1].msg = <<97, 0, 98, 98, 0, 55, 0>>
    /\ op[1].result = req_list[2].owner


(***************************************************************************)
(* READ_BY_INDEX_DONE and repeated signals (SpecRead).                     *)
(***************************************************************************)
DoneStep == setting_read_by_index_done_callback(SBP_SENDER_ID, <<>>)

PendingByIndex(state) ==
    state.msg_id = SBP_MSG_SETTINGS_READ_BY_INDEX_REQ /\ state.pending

InSeq(x, seq) == \E k \in 1..Len(seq) : seq[k] = x

\* C32: on READ_BY_INDEX_DONE every pending read-by-index request in the
\* list gets its done bit, becomes matched and is signaled; every listed
\* request of another kind keeps all its fields, the done bit included,
\* and is not signaled.
C32_DoneFrame ==
    [][DoneStep =>
         \A i \in 1..Len(req_list) :
            /\ PendingByIndex(req_list[i])
                 => /\ req_list'[i].read_by_idx_done
                    /\ request_state_match(req_list'[i])
                    /\ InSeq(req_list[i].event, signalled')
            /\ req_list[i].msg_id # SBP_MSG_SETTINGS_READ_BY_INDEX_REQ
                 => /\ req_list'[i] = req_list[i]
                    /\ ~InSeq(req_list[i].event, signalled')]_vars

\* a handler ran: the calls are where they were
HandlerStep == op' = op /\ calls_left' = calls_left

\* C33: between request_state_init and the unlinking of a request the
\* host's signal is invoked for it at most once: a request that was
\* matched (signaled) and is still linked is not signaled by a later
\* reply with its prefix nor by a READ_BY_INDEX_DONE.
C33_SignalOnce ==
    [][HandlerStep =>
         \A i \in 1..Len(req_list) :
            req_list[i].match => ~InSeq(req_list[i].event, signalled')]_vars

\* the half on a second reply: a matched request is not signaled by a
\* READ_RESP or READ_BY_INDEX_RESP
C33_SecondReply ==
    [][(HandlerStep /\ ~DoneStep) =>
         \A i \in 1..Len(req_list) :
            req_list[i].match => ~InSeq(req_list[i].event, signalled')]_vars


(***************************************************************************)
(* What the response handlers send (Spec).                                 *)
(***************************************************************************)
RegisterRespStep ==
    \E m \in InRegisterResp, nrc \in NotifyRetsOf(setting_data_list) :
       setting_register_resp_callback(m.from, m.msg, nrc)

WriteRespStep ==
    \E m \in InWriteResp, nrc \in NotifyRetsOf(setting_data_list) :
       setting_write_resp_callback(m.from, m.msg, nrc)

\* C38: a WRITE_RESP is sent only as the reaction to an inbound WRITE
\* addressed to an owned setting: handling an inbound REGISTER_RESP or an
\* inbound WRITE_RESP sends no WRITE_RESP and no other message, for owned
\* read-write, readonly and watchonly entries alike.
C38_ResponsesSendNothing ==
    [][(RegisterRespStep \/ WriteRespStep) => out' = <<>>]_vars

\* the half on WRITE_RESP alone
C38_WriteRespSendsNothing == [][WriteRespStep => out' = <<>>]_vars

\* the half on REGISTER_RESP alone
C38_RegisterRespSendsNothing == [][RegisterRespStep => out' = <<>>]_vars


(***************************************************************************)
(* The callback list against the host's registrations (SpecCb).            *)
(***************************************************************************)
\* an id is in the callback list iff the host holds a registration for it
ListIsHostView ==
    \A msg_id \in MsgIds :
       Registered(sbp_cb_list, msg_id) <=> Registered(host_cbs, msg_id)

\* a failed host register_cb: -1, list unchanged
FailedRegister ==
    \A msg_id \in MsgIds :
       (~Registered(sbp_cb_list, msg_id) /\ CallRegister(msg_id, -1))
          => op'[1].result = -1 /\ sbp_cb_list' = sbp_cb_list

\* a failed host unregister_cb: -1, the id stays in the list
FailedUnregister ==
    \A msg_id \in MsgIds :
       (Registered(sbp_cb_list, msg_id) /\ CallUnregister(msg_id, -1))
          => op'[1].result = -1 /\ Registered(sbp_cb_list', msg_id)

\* C39: after any sequence of setting_sbp_cb_register and
\* setting_sbp_cb_unregister calls in which the host's register_cb and
\* unregister_cb may fail, a message id is in the callback list iff the
\* host holds a registration for it: a failed register_cb returns -1 and
\* leaves the list unchanged, a failed unregister_cb returns -1 and leaves
\* the id in the list.
C39_ListMatchesHost ==
    [][ListIsHostView' /\ FailedRegister /\ FailedUnregister]_vars

\* the half on register_cb
C39_RegisterHalf == [][FailedRegister]_vars


(***************************************************************************)
(* The request descriptor during the send-wait-retry loop (Spec).          *)
(***************************************************************************)
\* the caller's request is linked and carries the prefix of what was sent
RequestVisible(t) ==
    /\ ReqOf(req_list, t) # 0
    /\ req_list[ReqOf(req_list, t)].msg_id = op[t].msg_id
    /\ IsPrefix(req_list[ReqOf(req_list, t)].compare_data, op[t].msg)

\* a reply the handler of the request's kind accepts for the request
ReplyStep(state) ==
    \/ /\ state.msg_id = SBP_MSG_SETTINGS_REGISTER
       /\ \E m \in InRegisterResp, nrc \in NotifyRetsOf(setting_data_list) :
             /\ m.from = SBP_SENDER_ID
             /\ m.msg[1] \in {SETTINGS_REG_OK, SETTINGS_REG_OK_PERM,
                              SETTINGS_REG_REGISTERED}
             /\ IsPrefix(state.compare_data, From(m.msg, 1))
             /\ setting_register_resp_callback(m.from, m.msg, nrc)
    \/ /\ state.msg_id = SBP_MSG_SETTINGS_WRITE
       /\ \E m \in InWriteResp, nrc \in NotifyRetsOf(setting_data_list) :
             /\ IsPrefix(state.compare_data, From(m.msg, 1))
             /\ setting_write_resp_callback(m.from, m.msg, nrc)
    \/ /\ state.msg_id = SBP_MSG_SETTINGS_READ_REQ
       /\ \E m \in InReadResp, nrc \in NotifyRetsOf(setting_data_list) :
             /\ IsPrefix(state.compare_data, m.msg)
             /\ setting_read_resp_callback(m.from, m.msg, nrc)

\* the request of the running call was sent in this step
SentRequest(t) ==
    /\ op'[t].pc = "wait"
    /\ op'[t].sends > op[t].sends
    /\ out' = <<[msg_id |-> op'[t].msg_id, payload |-> op'[t].msg,
                 from |-> op'[t].from]>>

\* C34: the request descriptor is set up and visible to the handlers
\* before the first send and stays so until after the last wait; a
\* matching reply delivered at any time of the loop, also one to an
\* earlier attempt that arrives during a later attempt, marks the request
\* matched; once the request is matched and a wait returns 0 the operation
\* returns success without sending the request again.
C34_RequestVisible ==
    [][/\ op[1].pc = "wait" => RequestVisible(1)
       /\ op'[1].pc = "wait" => RequestVisible(1)'
       /\ (op'[1].sends > op[1].sends) => SentRequest(1) /\ RequestVisible(1)'
       /\ (op[1].pc = "wait" /\ HandlerStep
             /\ ReplyStep(req_list[ReqOf(req_list, 1)]))
            => /\ ReqOf(req_list', 1) = ReqOf(req_list, 1)
               /\ request_state_match(req_list'[ReqOf(req_list, 1)])
       /\ (op[1].pc = "wait" /\ HandlerStep)
            => (request_state_match(req_list[ReqOf(req_list, 1)])
                  => request_state_match(req_list'[ReqOf(req_list, 1)]))
       /\ \A src \in HostRets, hrc \in HostRets, fault \in BOOLEAN :
            (/\ op[1].pc = "wait"
             /\ request_state_match(req_list[ReqOf(req_list, 1)])
             /\ setting_perform_request_reply_from_wait(1, 0, src, hrc, fault))
              => /\ op'[1].pc = "done"
                 /\ op'[1].success
                 /\ op'[1].sends = op[1].sends
                 /\ out' = <<>>
                 /\ op[1].kind \in {"register", "readonly", "watch"}
                      => op'[1].result = 0]_vars

\* a call returned success on a reply that arrived during a later attempt
C34_Witness ==
    /\ op[1].pc = "done"
    /\ op[1].success
    /\ op[1].sends = 3
    /\ op[1].waits = 3
    /\ op[1].result = 0


(***************************************************************************)
(* Termination of the send-wait-retry loop (SpecLoop).                     *)
(***************************************************************************)
MaxOne(retries) == IF retries < 1 THEN 1 ELSE retries

\* the rounds so far: every send is followed by one wait, there is at
\* least one round and there are at most max(1, retries)
RoundsBounded ==
    /\ op[1].pc = "wait"
         => /\ 1 <= op[1].sends /\ op[1].sends <= MaxOne(op[1].retries)
            /\ op[1].waits = op[1].sends - 1
    /\ (op[1].pc = "done" /\ op[1].kind = "perform")
         => /\ 1 <= op[1].sends /\ op[1].sends <= MaxOne(op[1].retries)
            /\ op[1].waits = op[1].sends
            /\ op[1].result = IF op[1].success THEN 0 ELSE -1
            /\ ~op[1].success => op[1].sends = MaxOne(op[1].retries)

\* a wait that returns 0 without the request being matched uses a try
SpuriousWakeCounts ==
    \A src \in HostRets :
       (/\ op[1].pc = "wait"
        /\ ~request_state_match(req_list[ReqOf(req_list, 1)])
        /\ setting_perform_request_reply_from_wait(1, 0, src, 0, FALSE))
          => /\ op'[1].tries = op[1].tries + 1
             /\ op'[1].pc = "wait" <=> op[1].tries + 1 < op[1].retries

\* C35: every synchronous operation terminates: provided each host wait
\* call returns, the send-wait-retry loop performs at least one and at
\* most max(1, retries) send/wait rounds under every interleaving of
\* replies and spurious wake-ups (a wait that returns 0 without the
\* request being matched counts as a used try), and then returns.
C35_Terminates ==
    /\ []RoundsBounded
    /\ [][SpuriousWakeCounts]_vars
    /\ (op[1].pc = "wait") ~> (op[1].pc = "done")

\* the loop returned failure after three rounds with retries = 3
C35_Witness ==
    /\ op[1].pc = "done" /\ op[1].kind = "perform"
    /\ op[1].retries = 3 /\ op[1].sends = 3 /\ op[1].waits = 3
    /\ ~op[1].success

\* the loop made its one round with retries = 0
C35_WitnessZero ==
    /\ op[1].pc = "done" /\ op[1].kind = "perform"
    /\ op[1].retries = 0 /\ op[1].sends = 1 /\ op[1].waits = 1

====
